---------------------------- MODULE Spec2Model ----------------------------
(***************************************************************************)
(* BAKEMONO (src/app/components/Game.tsx, lines 1-1207): the per-frame     *)
(* simulation of the game component, its input handlers, the four upgrade  *)
(* actions and the restart handler.                                        *)
(*                                                                         *)
(* Number representation (the source computes in IEEE doubles; the model   *)
(* computes in fixed point, so that every constant of the source is an     *)
(* integer):                                                               *)
(*   lengths, positions, radii, speeds   half pixels        L(px) = 2*px   *)
(*   bloodGauge and damage to it         1/2000 of a unit   G(n) = 2000*n  *)
(*   enemy health and damage to it       1/50 of a unit     H(n) = 50*n    *)
(*   time                                milliseconds                      *)
(*   a Math.random() draw r              percent, r = p/100, p in 0..99    *)
(* Math.sqrt is the integer square root (floor), and a quotient that is    *)
(* not a whole number of units is truncated toward zero.  A comparison     *)
(* "distance < R" with a whole R is exact under the floor.                 *)
(***************************************************************************)
EXTENDS Integers, Sequences, FiniteSets, TLC

(***************************************************************************)
(* Units.                                                                  *)
(***************************************************************************)
L(px) == 2 * px
G(n) == 2000 * n
H(n) == 50 * n

(***************************************************************************)
(* Program constants (Game.tsx lines 5-64 and the literals of the code).   *)
(***************************************************************************)
WAVE_SCALING_FACTOR == 100
DIFFICULTY_SCALING_FACTOR == 500
\* BASE_DRAIN_RATE = 1 and DRAIN_RATE_PER_LEVEL = 0.5 per second, in gauge
\* units (1/2000) per millisecond: 2000/1000 = 2 and 1000/1000 = 1.
BASE_DRAIN_RATE == 2
DRAIN_RATE_PER_LEVEL == 1
\* 30 * BLOOD_RECOVERY_MULTIPLIER (0.5), Game.tsx 636 and 687
BASE_RECOVERY == 15
ATTACK_UPGRADE_BASE_COST == 50
DAMAGE_INCREASE_PER_LEVEL == 5
ATTACK_RANGE_INCREASE_PER_LEVEL == 20
\* MOVEMENT_SPEED_INCREASE_PER_LEVEL = 0.5 px = 1 half pixel
MOVEMENT_SPEED_INCREASE_PER_LEVEL == 1
PROJECTILE_DAMAGE_BASE == 15
PROJECTILE_DAMAGE_INCREASE_PER_LEVEL == 5
PROJECTILE_SPEED_PLAYER == 8
PROJECTILE_COOLDOWN_BASE == 300
PROJECTILE_COOLDOWN_REDUCTION_PER_LEVEL == 15
PROJECTILE_COOLDOWN_MIN == 100
PROJECTILE_COUNT_BASE == 1
PROJECTILE_COUNT_INCREASE_INTERVAL == 3
PROJECTILE_HOMING_LEVEL == 10
\* PROJECTILE_HOMING_STRENGTH = 0.15, in percent
PROJECTILE_HOMING_STRENGTH == 15
\* DARKNESS_RISE_SPEED = 0.5 px = 1 half pixel
DARKNESS_RISE_SPEED == 1
DARKNESS_START_OFFSET == 200
ENEMY_LEVEL_ALTITUDE_INTERVAL == 500
RANGED_DISTANCE_THRESHOLD == 50
RANGED_ENEMY_SHOOT_COOLDOWN == 2000
RANGED_ENEMY_PREFERRED_DISTANCE == 200
\* PROJECTILE_DAMAGE_MULTIPLIER = 0.5, in tenths
PROJECTILE_DAMAGE_MULTIPLIER == 5
PROJECTILE_SPEED == 3
EXPLOSIVE_EXPLOSION_RADIUS == 100
EXPLOSIVE_TRIGGER_DISTANCE == 80
EXPLOSIVE_DAMAGE_MULTIPLIER == 3
CHASER_TRAIL_COOLDOWN == 500
\* CHASER_TRAIL_DAMAGE_MULTIPLIER = 0.3, in tenths
CHASER_TRAIL_DAMAGE_MULTIPLIER == 3
\* CHASER_TRAIL_SPEED_MULTIPLIER = 0.5, in tenths
CHASER_TRAIL_SPEED_MULTIPLIER == 5
\* the type thresholds, in percent
LEVEL_6_9_MELEE_PROBABILITY == 50
LEVEL_10_19_MELEE_PROBABILITY == 40
LEVEL_10_19_RANGED_PROBABILITY == 70
LEVEL_20_PLUS_MELEE_PROBABILITY == 30
LEVEL_20_PLUS_RANGED_PROBABILITY == 55
LEVEL_20_PLUS_EXPLOSIVE_PROBABILITY == 80
\* the initial player object, Game.tsx 133-150, and the restart handler
PLAYER_RADIUS == 20
INITIAL_BLOOD_GAUGE == 100
INITIAL_ATTACK_RADIUS == 150
INITIAL_ATTACK_DAMAGE == 10
ATTACK_COOLDOWN == 500
INITIAL_BASE_SPEED == 5
SPAWN_INTERVAL == 2000

(***************************************************************************)
(* Bounds of the model: the environment the component runs in and the      *)
(* length of the runs explored.                                            *)
(***************************************************************************)
\* canvas.width and canvas.height (window.innerWidth/innerHeight), in px
ScreenWidth == 400
ScreenHeight == 600
\* Date.now() when the page is loaded, ms
PageLoadTime == 10000
\* frames, touch events after the one that starts a run, and runs explored
MaxTicks == 5
MaxInputs == 1
MaxRuns == 2
\* frames and keydown events explored under keyboard play (SpecKeys)
MaxKeyTicks == 3
MaxKeys == 2
\* frames and touchmove events explored after a long climb (SpecClimb)
MaxClimbTicks == 3
MaxClimbDrags == 2
\* frames and touchmove events explored at the level tiers (SpecSpawn)
MaxSpawnTicks == 3
MaxSpawnDrags == 1
\* frames and keydown events explored with upgrades and restarts (SpecLevels)
MaxMoveTicks == 2
MaxMoveInputs == 3
MaxOverlapTicks == 4
MaxOverlapDrags == 1
MaxLagTicks == 3
MaxLagDrags == 1
MaxRestartTicks == 3
MaxRestartInputs == 2
\* frames of a run under the darkness (SpecDark), and the number of its
\* first frames around which long frames, drags and upgrades are explored
MaxDarkTicks == 401
MaxDarkEarly == 2
MaxDarkInputs == 1
\* a run ended by the drain (SpecDrain)
MaxDrainTicks == 3
MaxDrainInputs == 2
\* frames within one millisecond of the one before (SpecZero)
MaxZeroTicks == 3
MaxZeroDrags == 2
\* frames and drags of a run among explosive enemies (SpecBlast)
MaxBlastTicks == 4
MaxBlastDrags == 2
MaxLevelTicks == 4
MaxLevelKeys == 1
\* frames and touchmove events explored with projectile upgrades (SpecVolley)
MaxVolleyTicks == 5
MaxVolleyDrags == 1

\* deltaTime of a frame: currentTime - lastTime of gameLoop, ms
DeltaTimes == {500, 2001}
\* touchmove deltas (clientX/clientY differences), px
DragDeltas == {<<0, -400>>, <<-250, 210>>}
ClimbDeltas == {<<0, -4400>>, <<0, -325>>, <<0, -466>>}
\* the keys handleKeyDown records
ArrowKeys == {"ArrowUp", "ArrowDown", "ArrowLeft", "ArrowRight"}
\* Math.random(): the sequence of draws of the page, in percent, taken in
\* call order and repeated cyclically
RandomStreams == {<<0, 50, 85, 25, 50, 50, 25, 25>>}
\* climbs to the altitudes of level 6, level 10 and level 20, px
SpawnDeltas == {<<0, -2600>>, <<0, -4600>>, <<0, -9700>>}
\* deltaTime of the frames of SpecLevels, ms
MoveDrags == {<<-250, 210>>, <<250, 210>>, <<0, -400>>}
MoveDeltaTimes == {16}
\* a climb that ends on the way of the first enemy, px
OverlapDeltas == {<<0, -400>>}
OverlapLevels == {1, 10}
\* frames of SpecLag: one cooldown of a wave, and more than three, ms
LagDeltaTimes == {2001, 6500}
LagDeltas == {<<0, -9700>>}
RestartDeltaTimes == {500}
\* a drag down into the darkness, px
RestartDrags == {<<0, 210>>}
DarkDeltaTimes == {16}
DarkLongDeltaTimes == {2001}
\* a drag up, away from the darkness, and one down, towards it, px
DarkDrags == {<<0, -300>>, <<0, 100>>}
\* a frame that passes the spawn interval, and one after the page was hidden
DrainDeltaTimes == {2001, 50000}
DrainDrags == {<<120, -90>>}
\* two frames within the same millisecond, and one past the spawn interval
ZeroDeltaTimes == {0, 2001}
\* a drag to the altitude of the explosive enemies, and one into their wave
ZeroDrags == {<<0, -4400>>, <<0, -325>>}
\* attack levels of the player: none, and one whose attack kills at a blow
BlastLevels == {0, 60}
\* a frame just over the attack cooldown, and one past the spawn interval
BlastDeltaTimes == {501, 2001}
\* a drag to the altitude of the explosive enemies, one that takes the
\* player within their trigger distance and one within the attack radius
BlastDrags == {<<0, -4400>>, <<0, -325>>, <<0, -290>>}
LevelDeltaTimes == {2001}
\* a climb to an altitude where a wave has three enemies, px
VolleyDeltas == {<<0, -1000>>}
\* frames shorter than every projectile cooldown, and a frame longer than
\* the spawn interval, ms
VolleyDeltaTimes == {100, 2001}
\* projectile levels with one, two, three and four projectiles a volley,
\* the last of them the level at which projectiles home
VolleyLevels == {0, 1, 4, 7, 10}
\* draws at and next to the thresholds of the type tables, in percent
SpawnStreams ==
  {<<0, 29, 30, 39, 40, 49, 50, 54, 55, 69, 70, 79, 80, 99, 25, 85>>}

(***************************************************************************)
(* Arithmetic helpers.                                                     *)
(***************************************************************************)
Abs(x) == IF x < 0 THEN -x ELSE x
Max(a, b) == IF a >= b THEN a ELSE b
Min(a, b) == IF a <= b THEN a ELSE b
\* a / b for b > 0, truncated toward zero
TruncDiv(a, b) == IF a >= 0 THEN a \div b ELSE -((-a) \div b)

RECURSIVE IsqrtIter(_, _, _)
IsqrtIter(n, lo, hi) ==
  IF lo >= hi THEN lo
  ELSE LET mid == (lo + hi + 1) \div 2
       IN  IF mid * mid <= n THEN IsqrtIter(n, mid, hi)
           ELSE IsqrtIter(n, lo, mid - 1)
\* Math.sqrt, floor
Isqrt(n) == IsqrtIter(n, 0, Min(n, 46340))
\* Math.sqrt(dx * dx + dy * dy)
Distance(dx, dy) == Isqrt(dx * dx + dy * dy)
\* (d / distance) * speed, the component of a velocity of magnitude speed
Toward(d, distance, speed) == TruncDiv(d * speed, distance)

\* splice(i, 1) on a 1-based sequence
Splice(s, i) == SubSeq(s, 1, i - 1) \o SubSeq(s, i + 1, Len(s))

VARIABLES
  gameState,      \* useState 'start' | 'playing' | 'gameover'
  score,          \* useState score
  ui,             \* useState bloodGauge and the four levels, as rendered
  player,         \* playerRef.current
  enemies,        \* enemiesRef.current
  projectiles,    \* projectilesRef.current
  keys,           \* keysRef.current
  touchStart,     \* touchStartRef.current # null
  cameraY,        \* cameraYRef.current
  lastSpawnTime,  \* lastSpawnTimeRef.current
  darknessY,      \* darknessYRef.current
  now,            \* Date.now()
  loopScore,      \* the score the running loop's closure captured
  random,         \* Math.random(): the stream and the number of draws taken
  nextId,         \* identity of the next object created (enemy, projectile)
  ticks, inputs, runs,   \* exploration counters
  log             \* what the last handler did (history, read by no handler)

vars == <<gameState, score, ui, player, enemies, projectiles, keys, touchStart,
          cameraY, lastSpawnTime, darknessY, now, loopScore, random,
          nextId, ticks, inputs, runs, log>>

NoLog == [kind |-> "none"]

\* the React state the buttons are rendered from
InitialUi ==
  [bloodGauge |-> G(INITIAL_BLOOD_GAUGE), attackLevel |-> 0, rangeLevel |-> 0,
   speedLevel |-> 0, projectileLevel |-> 0]

InitialPlayer ==
  [x |-> 0, y |-> 0, vx |-> 0, vy |-> 0,
   radius |-> L(PLAYER_RADIUS),
   bloodGauge |-> G(INITIAL_BLOOD_GAUGE),
   attackRadius |-> L(INITIAL_ATTACK_RADIUS),
   attackDamage |-> H(INITIAL_ATTACK_DAMAGE),
   attackCooldown |-> ATTACK_COOLDOWN,
   lastAttackTime |-> 0,
   attackLevel |-> 0, rangeLevel |-> 0, speedLevel |-> 0,
   projectileLevel |-> 0,
   lastProjectileTime |-> 0,
   baseSpeed |-> L(INITIAL_BASE_SPEED)]

Init ==
  /\ gameState = "start"
  /\ score = 0
  /\ ui = InitialUi
  /\ player = InitialPlayer
  /\ enemies = <<>>
  /\ projectiles = <<>>
  /\ keys = {}
  /\ touchStart = FALSE
  /\ cameraY = 0
  /\ lastSpawnTime = 0
  /\ darknessY = 0
  /\ now = PageLoadTime
  /\ loopScore = 0
  /\ \E stream \in RandomStreams : random = [stream |-> stream, n |-> 0]
  /\ nextId = 1
  /\ ticks = 0 /\ inputs = 0 /\ runs = 1
  /\ log = NoLog


(***************************************************************************)
(* What a handler saw when it was called: the log keeps it so that the     *)
(* effect of one handler can be read off one state.                        *)
(***************************************************************************)
Snapshot ==
  [gameState |-> gameState, score |-> score, player |-> player,
   enemies |-> enemies, projectiles |-> projectiles, cameraY |-> cameraY,
   lastSpawnTime |-> lastSpawnTime, darknessY |-> darknessY, now |-> now]

(***************************************************************************)
(* Starting a run: setGameState('playing') from handleKeyDown (space),     *)
(* handleTouchStart or the start button, then the game-loop effect's       *)
(* initialisation (Game.tsx 254-272).  The loop calls the update and       *)
(* spawnEnemyWave closures of the render in which the effect ran, so the   *)
(* score spawnEnemyWave reads is the score of that render.                 *)
(***************************************************************************)
RunInitPlayer(p) ==
  [p EXCEPT !.x = L(ScreenWidth) \div 2, !.y = L(ScreenHeight) \div 2]

\* a touch that sends every phase to 'playing'
StartPhase_Always(phase) == "playing"

\* if (gameState === 'start') setGameState('playing'), Game.tsx 181-184
\* and 198-200
StartPhase(phase) == IF phase = "start" THEN "playing" ELSE phase

StartRun(touch) ==
  /\ gameState = "start"
  /\ gameState' = StartPhase(gameState)
  /\ player' = RunInitPlayer(player)
  /\ enemies' = <<>>
  /\ projectiles' = <<>>
  /\ cameraY' = 0
  /\ lastSpawnTime' = now
  /\ darknessY' = player'.y + L(DARKNESS_START_OFFSET)
  /\ loopScore' = score
  /\ touchStart' = IF touch THEN TRUE ELSE touchStart
  /\ log' = [kind |-> "start", pre |-> Snapshot]
  /\ UNCHANGED <<score, ui, keys, now, random, nextId, ticks, inputs, runs>>

(***************************************************************************)
(* The restart button of the game-over screen (Game.tsx 1177-1196).        *)
(***************************************************************************)
\* a restart that forgets the projectile track
RestartPlayer_KeepProjectile(p) ==
  [p EXCEPT !.bloodGauge = G(INITIAL_BLOOD_GAUGE),
            !.attackLevel = 0, !.rangeLevel = 0, !.speedLevel = 0,
            !.attackDamage = H(INITIAL_ATTACK_DAMAGE),
            !.attackRadius = L(INITIAL_ATTACK_RADIUS),
            !.baseSpeed = L(INITIAL_BASE_SPEED)]

\* a restart that resets the levels and keeps what they had bought
RestartPlayer_KeepEffects(p) ==
  [p EXCEPT !.bloodGauge = G(INITIAL_BLOOD_GAUGE),
            !.attackLevel = 0, !.rangeLevel = 0, !.speedLevel = 0,
            !.projectileLevel = 0]

RestartPlayer(p) ==
  [p EXCEPT !.bloodGauge = G(INITIAL_BLOOD_GAUGE),
            !.attackLevel = 0, !.rangeLevel = 0, !.speedLevel = 0,
            !.projectileLevel = 0,
            !.attackDamage = H(INITIAL_ATTACK_DAMAGE),
            !.attackRadius = L(INITIAL_ATTACK_RADIUS),
            !.baseSpeed = L(INITIAL_BASE_SPEED)]

Restart ==
  /\ gameState = "gameover"
  /\ runs < MaxRuns
  /\ runs' = runs + 1
  /\ gameState' = "start"
  /\ score' = 0
  /\ ui' = InitialUi
  /\ player' = RestartPlayer(player)
  /\ cameraY' = 0
  /\ enemies' = <<>>
  /\ projectiles' = <<>>
  /\ log' = [kind |-> "restart", pre |-> Snapshot]
  /\ UNCHANGED <<keys, touchStart, lastSpawnTime, darknessY, now, loopScore,
                 random, nextId, ticks, inputs>>

(***************************************************************************)
(* The four upgrade actions (Game.tsx 804-853) and their buttons (Game.tsx *)
(* 1113-1146).  A button exists only while gameState is 'playing' and is   *)
(* disabled when the bloodGauge of the last render is below the cost at    *)
(* the level of the last render.  The handler does not trust the render:   *)
(* it tests playerRef.current.bloodGauge itself, which the frame may have  *)
(* lowered after its setBloodGauge call.                                   *)
(***************************************************************************)
UpgradeCost(level) == G(ATTACK_UPGRADE_BASE_COST * (level + 1))

ButtonEnabled(level) ==
  /\ gameState = "playing"
  /\ ~(ui.bloodGauge < UpgradeCost(level))

\* an attack upgrade that does not look at the gauge
strengthenAttackPlayer_Unchecked(p) ==
  [p EXCEPT !.bloodGauge = @ - UpgradeCost(p.attackLevel),
            !.attackLevel = @ + 1,
            !.attackDamage = @ + H(DAMAGE_INCREASE_PER_LEVEL)]

strengthenAttackPlayer(p) ==
  LET cost == UpgradeCost(p.attackLevel)
  IN  IF p.bloodGauge >= cost
      THEN [p EXCEPT !.bloodGauge = @ - cost,
                     !.attackLevel = @ + 1,
                     !.attackDamage = @ + H(DAMAGE_INCREASE_PER_LEVEL)]
      ELSE p

\* a range upgrade that wants more than its cost
strengthenRangePlayer_Strict(p) ==
  LET cost == UpgradeCost(p.rangeLevel)
  IN  IF p.bloodGauge > cost
      THEN [p EXCEPT !.bloodGauge = @ - cost,
                     !.rangeLevel = @ + 1,
                     !.attackRadius = @ + L(ATTACK_RANGE_INCREASE_PER_LEVEL)]
      ELSE p

strengthenRangePlayer(p) ==
  LET cost == UpgradeCost(p.rangeLevel)
  IN  IF p.bloodGauge >= cost
      THEN [p EXCEPT !.bloodGauge = @ - cost,
                     !.rangeLevel = @ + 1,
                     !.attackRadius = @ + L(ATTACK_RANGE_INCREASE_PER_LEVEL)]
      ELSE p

\* a speed upgrade that is paid for with a level of the range track
strengthenSpeedPlayer_Coupled(p) ==
  LET cost == UpgradeCost(p.speedLevel)
  IN  IF p.bloodGauge >= cost
      THEN [p EXCEPT !.bloodGauge = @ - cost, !.speedLevel = @ + 1,
                     !.rangeLevel = IF @ > 0 THEN @ - 1 ELSE @]
      ELSE p

strengthenSpeedPlayer(p) ==
  LET cost == UpgradeCost(p.speedLevel)
  IN  IF p.bloodGauge >= cost
      THEN [p EXCEPT !.bloodGauge = @ - cost, !.speedLevel = @ + 1]
      ELSE p

strengthenProjectilePlayer(p) ==
  LET cost == UpgradeCost(p.projectileLevel)
  IN  IF p.bloodGauge >= cost
      THEN [p EXCEPT !.bloodGauge = @ - cost, !.projectileLevel = @ + 1]
      ELSE p

\* the setBloodGauge and set<Track>Level calls of a successful upgrade
UpgradeUi(p2, level2, field) ==
  IF p2 = player THEN ui
  ELSE [ui EXCEPT !.bloodGauge = p2.bloodGauge, ![field] = level2]

Upgrade(track, p2, u2) ==
  /\ player' = p2
  /\ ui' = u2
  /\ log' = [kind |-> "upgrade", track |-> track, pre |-> Snapshot]
  /\ UNCHANGED <<gameState, score, enemies, projectiles, keys, touchStart,
                 cameraY, lastSpawnTime, darknessY, now, loopScore, random,
                 nextId, ticks, inputs, runs>>

strengthenAttack ==
  /\ ButtonEnabled(ui.attackLevel)
  /\ \E p2 \in {strengthenAttackPlayer(player)} :
       Upgrade("attack", p2, UpgradeUi(p2, p2.attackLevel, "attackLevel"))

strengthenRange ==
  /\ ButtonEnabled(ui.rangeLevel)
  /\ \E p2 \in {strengthenRangePlayer(player)} :
       Upgrade("range", p2, UpgradeUi(p2, p2.rangeLevel, "rangeLevel"))

strengthenSpeed ==
  /\ ButtonEnabled(ui.speedLevel)
  /\ \E p2 \in {strengthenSpeedPlayer(player)} :
       Upgrade("speed", p2, UpgradeUi(p2, p2.speedLevel, "speedLevel"))

strengthenProjectile ==
  /\ ButtonEnabled(ui.projectileLevel)
  /\ \E p2 \in {strengthenProjectilePlayer(player)} :
       Upgrade("projectile", p2,
               UpgradeUi(p2, p2.projectileLevel, "projectileLevel"))

(***************************************************************************)
(* Keyboard and touch handlers (Game.tsx 177-233).                         *)
(***************************************************************************)
Others == <<gameState, score, ui, enemies, projectiles, cameraY, lastSpawnTime,
            darknessY, now, loopScore, random, nextId, ticks, runs>>

handleKeyDown(k, maxInputs) ==
  /\ k \in ArrowKeys
  /\ k \notin keys
  /\ inputs < maxInputs
  /\ inputs' = inputs + 1
  /\ keys' = keys \cup {k}
  /\ log' = [kind |-> "keydown"]
  /\ UNCHANGED <<Others, player, touchStart>>

handleKeyUp(k) ==
  /\ k \in keys
  /\ keys' = keys \ {k}
  /\ log' = [kind |-> "keyup"]
  /\ UNCHANGED <<Others, player, touchStart, inputs>>

\* a touch that begins while a run is on or over; the one that starts a
\* run is StartRun(TRUE)
handleTouchStart ==
  /\ gameState # "start"
  /\ ~touchStart
  /\ inputs < MaxInputs
  /\ inputs' = inputs + 1
  /\ touchStart' = TRUE
  /\ gameState' = StartPhase(gameState)
  /\ log' = [kind |-> "touchstart"]
  /\ UNCHANGED <<score, ui, enemies, projectiles, cameraY, lastSpawnTime,
                 darknessY, now, loopScore, random, nextId, ticks, runs,
                 player, keys>>

\* a drag that keeps the player on the screen vertically only
TouchMovePlayer_Vertical(p, dx, dy) ==
  [p EXCEPT !.x = p.x + dx,
            !.y = Min(L(ScreenHeight) - p.radius, p.y + dy)]

TouchMovePlayer(p, dx, dy) ==
  [p EXCEPT !.x = Max(p.radius, Min(L(ScreenWidth) - p.radius, p.x + dx)),
            !.y = Min(L(ScreenHeight) - p.radius, p.y + dy)]

handleTouchMove(d, maxInputs) ==
  /\ touchStart
  /\ gameState = "playing"
  /\ inputs < maxInputs
  /\ inputs' = inputs + 1
  /\ player' = TouchMovePlayer(player, L(d[1]), L(d[2]))
  /\ log' = [kind |-> "touchmove", pre |-> Snapshot, d |-> d]
  /\ UNCHANGED <<Others, keys, touchStart>>

handleTouchEnd ==
  /\ touchStart
  /\ inputs < MaxInputs
  /\ inputs' = inputs + 1
  /\ touchStart' = FALSE
  /\ player' = [player EXCEPT !.vx = 0, !.vy = 0]
  /\ log' = [kind |-> "touchend"]
  /\ UNCHANGED <<Others, keys>>

(***************************************************************************)
(* update(deltaTime), Game.tsx 296-697.  The stages below work on a record *)
(* g of everything update can change; g.ev collects what happened, for the *)
(* log.  t is Date.now() during the frame.  In the loops the test          *)
(* "nextId > 0" is always true (identities start at 1): it only makes the  *)
(* result of one iteration a value before the next iteration starts.      *)
(***************************************************************************)
NoEvents ==
  [exit |-> "end", low |-> 0, kills |-> <<>>, explosions |-> <<>>,
   hurts |-> <<>>, spawned |-> <<>>, typeDraws |-> <<>>, targets |-> <<>>,
   volley |-> <<>>, shots |-> <<>>,
   hits |-> <<>>, culled |-> <<>>,
   shooters |-> <<>>, onPlayer |-> <<>>, onTarget |-> <<>>,
   attack |-> [fired |-> FALSE, before |-> <<>>]]

\* a loss of bloodGauge followed by the test "bloodGauge <= 0"
Hurt(g, src, id, amount) ==
  LET p2 == [g.player EXCEPT !.bloodGauge = @ - amount]
  IN  [g EXCEPT !.player = p2,
                !.gameState = IF p2.bloodGauge <= 0 THEN "gameover" ELSE @,
                !.ev.low = Min(@, p2.bloodGauge),
                !.ev.hurts = Append(@, [src |-> src, id |-> id,
                                        amount |-> amount,
                                        after |-> p2.bloodGauge])]

\* a gauge that does not drain
DrainAmount_None(p, dt) == 0

\* Game.tsx 301-303
\* a drain that grows with the level of every track
DrainAmount_AllLevels(p, dt) ==
  (BASE_DRAIN_RATE
     + (p.attackLevel + p.rangeLevel + p.speedLevel + p.projectileLevel)
         * DRAIN_RATE_PER_LEVEL) * dt

DrainAmount(p, dt) ==
  (BASE_DRAIN_RATE + p.attackLevel * DRAIN_RATE_PER_LEVEL) * dt

\* Game.tsx 309-317
MoveSpeed(p) == p.baseSpeed + p.speedLevel * MOVEMENT_SPEED_INCREASE_PER_LEVEL

KeyboardInput(p) ==
  LET moveSpeed == MoveSpeed(p)
  IN  [p EXCEPT
        !.vx = IF "ArrowLeft" \in keys THEN -moveSpeed
               ELSE IF "ArrowRight" \in keys THEN moveSpeed
               ELSE IF ~touchStart THEN 0 ELSE @,
        !.vy = IF "ArrowUp" \in keys THEN -moveSpeed
               ELSE IF "ArrowDown" \in keys THEN moveSpeed
               ELSE IF ~touchStart THEN 0 ELSE @]

(***************************************************************************)
(* Automatic player projectile shooting, Game.tsx 319-392.                 *)
(***************************************************************************)
ProjectileCooldown(level) ==
  Max(PROJECTILE_COOLDOWN_MIN,
      PROJECTILE_COOLDOWN_BASE
        - (level - 1) * PROJECTILE_COOLDOWN_REDUCTION_PER_LEVEL)

\* one projectile a volley at every level
ProjectileCount_One(level) == PROJECTILE_COUNT_BASE

ProjectileCount(level) ==
  PROJECTILE_COUNT_BASE + ((level - 1) \div PROJECTILE_COUNT_INCREASE_INTERVAL)

ProjectileDamage(level) ==
  H(PROJECTILE_DAMAGE_BASE + (level - 1) * PROJECTILE_DAMAGE_INCREASE_PER_LEVEL)

DistSq(a, p) == (a.x - p.x) * (a.x - p.x) + (a.y - p.y) * (a.y - p.y)

\* a sort that leaves the array as it is
SortByDistance_None(es, p) == es

\* [...enemies].sort by distance to the player, which is stable: the place
\* of es[i] is one more than the number of elements that come before it
SortByDistance(es, p) ==
  LET n == Len(es)
      Before(j, i) ==
        \/ DistSq(es[j], p) < DistSq(es[i], p)
        \/ DistSq(es[j], p) = DistSq(es[i], p) /\ j < i
      placed == {<<Cardinality({j \in 1..n : Before(j, i)}) + 1, i>> :
                   i \in 1..n}
  IN  [r \in 1..n |-> es[(CHOOSE q \in placed : q[1] = r)[2]]]

\* 100 * (cos, sin) of angleStep * i - PI / 2 for angleStep = 2 PI / 8, which
\* is the step whenever projectileCount <= 8 (projectileLevel <= 24)
FanOffsets ==
  <<[x |-> 0, y |-> -200], [x |-> 141, y |-> -141], [x |-> 200, y |-> 0],
    [x |-> 141, y |-> 141], [x |-> 0, y |-> 200], [x |-> -141, y |-> 141],
    [x |-> -200, y |-> 0], [x |-> -141, y |-> -141]>>

\* the objects pushed as targets when there is no enemy; id 0 stands for
\* "not an enemy" in targets
FanTargets(p, count) ==
  [i \in 1..count |->
     [id |-> 0, x |-> p.x + FanOffsets[i].x, y |-> p.y + FanOffsets[i].y]]


SelectTargets(es, p, count) ==
  LET sorted == SortByDistance(es, p)
      picked == SubSeq(sorted, 1, Min(count, Len(sorted)))
  IN  IF Len(picked) = 0 /\ count > 0 THEN FanTargets(p, count)
      ELSE [i \in 1..Len(picked) |->
              [id |-> picked[i].id, x |-> picked[i].x, y |-> picked[i].y]]

\* a volley whose projectile stands still when its target is on the player
PlayerProjectile_Still(p, target, id) ==
  LET dx == target.x - p.x
      dy == target.y - p.y
      distance == Distance(dx, dy)
  IN  [id |-> id, x |-> p.x, y |-> p.y,
       vx |-> IF distance > 0
              THEN Toward(dx, distance, L(PROJECTILE_SPEED_PLAYER)) ELSE 0,
       vy |-> IF distance > 0
              THEN Toward(dy, distance, L(PROJECTILE_SPEED_PLAYER)) ELSE 0,
       radius |-> L(6),
       damage |-> ProjectileDamage(p.projectileLevel),
       fromPlayer |-> TRUE,
       homing |-> p.projectileLevel >= PROJECTILE_HOMING_LEVEL]

PlayerProjectile(p, target, id) ==
  LET dx == target.x - p.x
      dy == target.y - p.y
      distance == Distance(dx, dy)
  IN  [id |-> id, x |-> p.x, y |-> p.y,
       vx |-> IF distance > 0
              THEN Toward(dx, distance, L(PROJECTILE_SPEED_PLAYER)) ELSE 0,
       vy |-> IF distance > 0
              THEN Toward(dy, distance, L(PROJECTILE_SPEED_PLAYER))
              ELSE -L(PROJECTILE_SPEED_PLAYER),
       radius |-> L(6),
       damage |-> ProjectileDamage(p.projectileLevel),
       fromPlayer |-> TRUE,
       homing |-> p.projectileLevel >= PROJECTILE_HOMING_LEVEL]

\* a cooldown that is over as soon as it has passed
CooldownOver_Inclusive(p, t) ==
  t - p.lastProjectileTime >= ProjectileCooldown(p.projectileLevel)

\* currentTime - player.lastProjectileTime > projectileCooldown
CooldownOver(p, t) ==
  t - p.lastProjectileTime > ProjectileCooldown(p.projectileLevel)

PlayerShoot(g, t) ==
  LET p == g.player
  IN  IF p.projectileLevel > 0 /\ CooldownOver(p, t)
      THEN LET targets == SelectTargets(g.enemies, p,
                                        ProjectileCount(p.projectileLevel))
               fired == [i \in 1..Len(targets) |->
                           PlayerProjectile(p, targets[i], g.nextId + i - 1)]
           IN  [g EXCEPT !.projectiles = @ \o fired,
                         !.nextId = @ + Len(fired),
                         !.player.lastProjectileTime = t,
                         !.ev.targets = targets,
                         !.ev.volley = fired]
      ELSE g

(***************************************************************************)
(* Player movement, camera and darkness, Game.tsx 394-407.                 *)
(***************************************************************************)
MovePlayer(p) ==
  [p EXCEPT !.x = Max(p.radius, Min(L(ScreenWidth) - p.radius, p.x + p.vx)),
            !.y = Min(L(ScreenHeight) - p.radius, p.y + p.vy)]

CameraOf(p) == p.y - (L(ScreenHeight) \div 2)

\* Math.max(0, Math.floor(-cameraY / 10)), Game.tsx 416
ScoreOf(camera) == Max(0, (-camera) \div L(10))

\* setBloodGauge ... setProjectileLevel, Game.tsx 419-424
UiOf(p) ==
  [bloodGauge |-> p.bloodGauge, attackLevel |-> p.attackLevel,
   rangeLevel |-> p.rangeLevel, speedLevel |-> p.speedLevel,
   projectileLevel |-> p.projectileLevel]


(***************************************************************************)
(* spawnEnemyWave, Game.tsx 699-802.  sc is the score the closure reads,   *)
(* stream the Math.random() draws of the page, n the number of draws       *)
(* already taken.                                                          *)
(***************************************************************************)
Draw(stream, n) == stream[(n % Len(stream)) + 1]

\* 1 + score / DIFFICULTY_SCALING_FACTOR, as a numerator over the factor
DifficultyNum(sc) == DIFFICULTY_SCALING_FACTOR + sc

\* the larger of 1 and the two multipliers instead of their sum with 1
WaveCount_Max(p, sc) ==
  Max(1, (Max(0, -p.y) \div L(300)) + (sc \div WAVE_SCALING_FACTOR))

WaveCount(p, sc) ==
  LET altitude == Max(0, -p.y)
      minEnemyCount == 1
      altitudeMultiplier == altitude \div L(300)
      scoreMultiplier == sc \div WAVE_SCALING_FACTOR
  IN  minEnemyCount + altitudeMultiplier + scoreMultiplier

SpawnY(p, r) == p.y - (L(ScreenHeight) \div 2) - L(100) - ((r * L(200)) \div 100)
SpawnX(r) == (r * L(ScreenWidth)) \div 100

\* a level that counts whole intervals without the first one
EnemyLevel_Intervals(spawnY) ==
  Max(1, (-spawnY) \div L(ENEMY_LEVEL_ALTITUDE_INTERVAL))

EnemyLevel(spawnY) ==
  Max(1, ((-spawnY) \div L(ENEMY_LEVEL_ALTITUDE_INTERVAL)) + 1)

\* a table whose thresholds belong to the type below them
EnemyType_Inclusive(level, r) ==
  IF level <= 5 THEN "melee"
  ELSE IF level <= 9
       THEN (IF r <= LEVEL_6_9_MELEE_PROBABILITY THEN "melee" ELSE "ranged")
  ELSE IF level <= 19
       THEN (IF r <= LEVEL_10_19_MELEE_PROBABILITY THEN "melee"
             ELSE IF r <= LEVEL_10_19_RANGED_PROBABILITY THEN "ranged"
             ELSE "explosive")
  ELSE (IF r <= LEVEL_20_PLUS_MELEE_PROBABILITY THEN "melee"
        ELSE IF r <= LEVEL_20_PLUS_RANGED_PROBABILITY THEN "ranged"
        ELSE IF r <= LEVEL_20_PLUS_EXPLOSIVE_PROBABILITY THEN "explosive"
        ELSE "chaser")

\* the type, given the level and the draw that is taken when level >= 6
EnemyType(level, r) ==
  IF level <= 5 THEN "melee"
  ELSE IF level <= 9
       THEN (IF r < LEVEL_6_9_MELEE_PROBABILITY THEN "melee" ELSE "ranged")
  ELSE IF level <= 19
       THEN (IF r < LEVEL_10_19_MELEE_PROBABILITY THEN "melee"
             ELSE IF r < LEVEL_10_19_RANGED_PROBABILITY THEN "ranged"
             ELSE "explosive")
  ELSE (IF r < LEVEL_20_PLUS_MELEE_PROBABILITY THEN "melee"
        ELSE IF r < LEVEL_20_PLUS_RANGED_PROBABILITY THEN "ranged"
        ELSE IF r < LEVEL_20_PLUS_EXPLOSIVE_PROBABILITY THEN "explosive"
        ELSE "chaser")

\* base + r * range * difficulty for base and range in tenths of a pixel,
\* the result in half pixels
Scaled(base10, range10, r, sc) ==
  (base10 * 100 * DIFFICULTY_SCALING_FACTOR + r * range10 * DifficultyNum(sc))
    \div (5 * 100 * DIFFICULTY_SCALING_FACTOR)

EnemySpeed(type, r, sc) ==
  IF type = "melee" THEN Scaled(10, 20, r, sc)
  ELSE IF type = "ranged" THEN Scaled(8, 12, r, sc)
  ELSE IF type = "explosive" THEN Scaled(15, 20, r, sc)
  ELSE Scaled(20, 25, r, sc)

EnemyHealth(level, sc) ==
  (H(30) * DifficultyNum(sc) * level) \div DIFFICULTY_SCALING_FACTOR

EnemyDamage(level, sc) ==
  (G(5) * DifficultyNum(sc) * level) \div DIFFICULTY_SCALING_FACTOR

\* one iteration of the loop of Game.tsx 714-801; 0 stands for undefined in
\* the optional timestamps, as (enemy.lastShootTime || 0) reads it
NewEnemy(p, sc, stream, n, id, t) ==
  LET spawnY == SpawnY(p, Draw(stream, n))
      spawnX == SpawnX(Draw(stream, n + 1))
      level == EnemyLevel(spawnY)
      typed == level > 5
      type == EnemyType(level, IF typed THEN Draw(stream, n + 2) ELSE 0)
      m == IF typed THEN n + 3 ELSE n + 2
  IN  [id |-> id, x |-> spawnX, y |-> spawnY, vx |-> 0, vy |-> 0,
       radius |-> Scaled(150, 50, Draw(stream, m + 1), sc),
       health |-> EnemyHealth(level, sc),
       maxHealth |-> EnemyHealth(level, sc),
       damage |-> EnemyDamage(level, sc),
       speed |-> EnemySpeed(type, Draw(stream, m), sc),
       level |-> level,
       type |-> type,
       lastShootTime |-> IF type = "ranged" THEN t ELSE 0,
       explosionRadius |-> IF type = "explosive"
                           THEN L(EXPLOSIVE_EXPLOSION_RADIUS) ELSE 0,
       exploded |-> FALSE,
       trailCooldown |-> IF type = "chaser" THEN CHASER_TRAIL_COOLDOWN ELSE 0,
       lastTrailTime |-> IF type = "chaser" THEN t ELSE 0,
       \* history: the time of the spawnEnemyWave call
       spawnTime |-> t]

\* the number of Math.random() calls one iteration makes
DrawsOf(e) == IF e.level > 5 THEN 5 ELSE 4

\* the loop of Game.tsx 714-801, from iteration i on
\* one iteration of the loop
SpawnEnemy(g, sc, t) ==
  LET e == NewEnemy(g.player, sc, g.random.stream, g.random.n, g.nextId, t)
  IN  [g EXCEPT !.enemies = Append(@, e),
                !.nextId = @ + 1,
                !.random.n = (@ + DrawsOf(e)) % Len(g.random.stream),
                !.ev.spawned = Append(@, e),
                !.ev.typeDraws =
                  IF e.level > 5
                  THEN Append(@, [id |-> e.id,
                                  r |-> Draw(g.random.stream, g.random.n + 2)])
                  ELSE @]

\* for (let i = 0; i < waveCount; i++): the iterations i .. waveCount - 1 in
\* order, the first half of them and then the second
RECURSIVE SpawnLoop(_, _, _, _, _)
SpawnLoop(g, i, waveCount, sc, t) ==
  IF i >= waveCount THEN g
  ELSE IF waveCount - i = 1 THEN SpawnEnemy(g, sc, t)
  ELSE LET mid == (i + waveCount) \div 2
           g1 == SpawnLoop(g, i, mid, sc, t)
       IN  IF g1.nextId > 0 THEN SpawnLoop(g1, mid, waveCount, sc, t) ELSE g1

spawnEnemyWave(g, sc, t) == SpawnLoop(g, 0, WaveCount(g.player, sc), sc, t)

\* Game.tsx 426-431
\* a spawn check that makes up for the waves a long frame has missed
SpawnCheck_CatchUp(g, sc, t) ==
  IF t - g.lastSpawnTime > SPAWN_INTERVAL
  THEN LET g1 == IF t - g.lastSpawnTime > 2 * SPAWN_INTERVAL
                 THEN spawnEnemyWave(g, sc, t) ELSE g
       IN  [spawnEnemyWave(g1, sc, t) EXCEPT !.lastSpawnTime = t]
  ELSE g

SpawnCheck(g, sc, t) ==
  IF t - g.lastSpawnTime > SPAWN_INTERVAL
  THEN [spawnEnemyWave(g, sc, t) EXCEPT !.lastSpawnTime = t]
  ELSE g


(***************************************************************************)
(* The enemy loop, Game.tsx 433-573: for (i = length - 1; i >= 0; i--).    *)
(* i is the 1-based index here.                                            *)
(***************************************************************************)
\* vx, vy toward the player at the enemy's speed, when distance > 0
Steer(e, dx, dy, distance, sign) ==
  IF distance > 0
  THEN [e EXCEPT !.vx = sign * Toward(dx, distance, e.speed),
                 !.vy = sign * Toward(dy, distance, e.speed)]
  ELSE e

Advance(e) == [e EXCEPT !.x = @ + e.vx, !.y = @ + e.vy]

\* enemy.damage * (deltaTime / 1000)
ContactDamage(e, dt) == TruncDiv(e.damage * dt, 1000)

\* Game.tsx 454-461 and 559-566
Contact(g, e, distance, dt) ==
  IF distance < g.player.radius + e.radius
  THEN Hurt(g, "contact", e.id, ContactDamage(e, dt))
  ELSE g

EnemyProjectile(e, dx, dy, distance, speed, radius, damage, id) ==
  [id |-> id, x |-> e.x, y |-> e.y,
   vx |-> IF distance > 0 THEN Toward(dx, distance, speed) ELSE 0,
   vy |-> IF distance > 0 THEN Toward(dy, distance, speed) ELSE 0,
   radius |-> radius, damage |-> damage,
   fromPlayer |-> FALSE, homing |-> FALSE]

\* projectiles.push(projectile) of the enemy e, whose last shot was at last
Fire(g, pr, e, last) ==
  [g EXCEPT !.projectiles = Append(@, pr),
            !.nextId = @ + 1,
            !.ev.shots = Append(@, pr),
            !.ev.shooters = Append(@, [id |-> e.id, type |-> e.type,
                                       damage |-> e.damage, last |-> last,
                                       spawnTime |-> e.spawnTime])]

\* Game.tsx 569-572
CullEnemy(g, i) ==
  IF Abs(g.enemies[i].y - g.player.y) > L(ScreenHeight) * 2
  THEN [g EXCEPT !.ev.culled = Append(@, g.enemies[i].id),
                 !.enemies = Splice(@, i)]
  ELSE g

\* Game.tsx 444-461
UpdateMelee(g, i, dx, dy, distance, dt) ==
  LET e == Advance(Steer(g.enemies[i], dx, dy, distance, 1))
  IN  CullEnemy(Contact([g EXCEPT !.enemies[i] = e], e, distance, dt), i)

\* Game.tsx 462-502
RangedMove(e, dx, dy, distance) ==
  LET preferredDist == L(RANGED_ENEMY_PREFERRED_DISTANCE)
  IN  IF distance > preferredDist + L(RANGED_DISTANCE_THRESHOLD)
      THEN Steer(e, dx, dy, distance, 1)
      ELSE IF distance < preferredDist - L(RANGED_DISTANCE_THRESHOLD)
      THEN Steer(e, dx, dy, distance, -1)
      ELSE [e EXCEPT !.vx = TruncDiv(@ * 9, 10), !.vy = TruncDiv(@ * 9, 10)]

\* a ranged enemy that does not note the time of its shot
UpdateRanged_NoStamp(g, i, dx, dy, distance, t) ==
  LET e == Advance(RangedMove(g.enemies[i], dx, dy, distance))
      shoots == t - e.lastShootTime > RANGED_ENEMY_SHOOT_COOLDOWN
      pr == EnemyProjectile(e, dx, dy, distance, L(PROJECTILE_SPEED), L(5),
                            TruncDiv(e.damage * PROJECTILE_DAMAGE_MULTIPLIER, 10),
                            g.nextId)
      g1 == IF shoots
            THEN Fire([g EXCEPT !.enemies[i] = e], pr, e, e.lastShootTime)
            ELSE [g EXCEPT !.enemies[i] = e]
  IN  CullEnemy(g1, i)

UpdateRanged(g, i, dx, dy, distance, t) ==
  LET e == Advance(RangedMove(g.enemies[i], dx, dy, distance))
      shoots == t - e.lastShootTime > RANGED_ENEMY_SHOOT_COOLDOWN
      pr == EnemyProjectile(e, dx, dy, distance, L(PROJECTILE_SPEED), L(5),
                            TruncDiv(e.damage * PROJECTILE_DAMAGE_MULTIPLIER, 10),
                            g.nextId)
      g1 == IF shoots
            THEN Fire([g EXCEPT !.enemies[i] = [e EXCEPT !.lastShootTime = t]], pr,
                      e, e.lastShootTime)
            ELSE [g EXCEPT !.enemies[i] = e]
  IN  CullEnemy(g1, i)

\* enemy.damage * EXPLOSIVE_DAMAGE_MULTIPLIER * damageMultiplier with
\* damageMultiplier = Math.max(0, 1 - distance / radius)
\* an explosion without falloff
ExplosionDamage_Full(e, distance, radius) ==
  e.damage * EXPLOSIVE_DAMAGE_MULTIPLIER

ExplosionDamage(e, distance, radius) ==
  TruncDiv(e.damage * EXPLOSIVE_DAMAGE_MULTIPLIER * Max(0, radius - distance),
           radius)

\* an explosion triggered from beyond the explosion radius
UpdateExplosive_FarTrigger(g, i, dx, dy, distance) ==
  LET e0 == g.enemies[i]
  IN  IF e0.exploded THEN CullEnemy(g, i)
      ELSE
        LET e == Advance(Steer(e0, dx, dy, distance, 1))
            g1 == [g EXCEPT !.enemies[i] = e]
        IN  IF distance < L(EXPLOSIVE_EXPLOSION_RADIUS) + L(20)
            THEN LET radius == IF e.explosionRadius # 0 THEN e.explosionRadius
                               ELSE L(EXPLOSIVE_EXPLOSION_RADIUS)
                     g2 == IF distance < radius
                           THEN Hurt(g1, "explosion", e.id,
                                     ExplosionDamage(e, distance, radius))
                           ELSE g1
                 IN  [g2 EXCEPT !.enemies = Splice(@, i),
                                !.ev.explosions =
                                   Append(@, [id |-> e.id, distance |-> distance,
                                              damage |-> e.damage,
                                              hurt |-> distance < radius,
                                              before |-> g1.player.bloodGauge,
                                              after |-> g2.player.bloodGauge])]
            ELSE CullEnemy(g1, i)

\* Game.tsx 503-531
UpdateExplosive(g, i, dx, dy, distance) ==
  LET e0 == g.enemies[i]
  IN  IF e0.exploded THEN CullEnemy(g, i)
      ELSE
        LET e == Advance(Steer(e0, dx, dy, distance, 1))
            g1 == [g EXCEPT !.enemies[i] = e]
        IN  IF distance < L(EXPLOSIVE_TRIGGER_DISTANCE)
            THEN LET radius == IF e.explosionRadius # 0 THEN e.explosionRadius
                               ELSE L(EXPLOSIVE_EXPLOSION_RADIUS)
                     g2 == IF distance < radius
                           THEN Hurt(g1, "explosion", e.id,
                                     ExplosionDamage(e, distance, radius))
                           ELSE g1
                 IN  [g2 EXCEPT !.enemies = Splice(@, i),
                                !.ev.explosions =
                                   Append(@, [id |-> e.id, distance |-> distance,
                                              damage |-> e.damage,
                                              hurt |-> distance < radius,
                                              before |-> g1.player.bloodGauge,
                                              after |-> g2.player.bloodGauge])]
            ELSE CullEnemy(g1, i)

\* Game.tsx 532-567
UpdateChaser(g, i, dx, dy, distance, t, dt) ==
  LET e == Advance(Steer(g.enemies[i], dx, dy, distance, 1))
      trailCooldown == IF e.trailCooldown # 0 THEN e.trailCooldown
                       ELSE CHASER_TRAIL_COOLDOWN
      trails == t - e.lastTrailTime > trailCooldown
      pr == EnemyProjectile(e, dx, dy, distance,
                            TruncDiv(L(PROJECTILE_SPEED) * CHASER_TRAIL_SPEED_MULTIPLIER, 10),
                            L(4),
                            TruncDiv(e.damage * CHASER_TRAIL_DAMAGE_MULTIPLIER, 10),
                            g.nextId)
      g1 == IF trails
            THEN Fire([g EXCEPT !.enemies[i] = [e EXCEPT !.lastTrailTime = t]], pr,
                      e, e.lastTrailTime)
            ELSE [g EXCEPT !.enemies[i] = e]
  IN  CullEnemy(Contact(g1, e, distance, dt), i)

\* history: the enemy at index i of g was exactly on the player when it was
\* updated to g2; its velocity before and after, and that of its shot
OnPlayer(g, g2, i) ==
  LET e == g.enemies[i]
      kept == i <= Len(g2.enemies) /\ g2.enemies[i].id = e.id
      fired == Len(g2.ev.shots) > Len(g.ev.shots)
  IN  [g2 EXCEPT !.ev.onPlayer =
         Append(@, [id |-> e.id, type |-> e.type,
                    before |-> <<e.vx, e.vy>>,
                    after |-> IF kept
                              THEN <<<<g2.enemies[i].vx, g2.enemies[i].vy>>>>
                              ELSE <<>>,
                    shot |-> IF fired
                             THEN <<<<g2.ev.shots[Len(g2.ev.shots)].vx,
                                      g2.ev.shots[Len(g2.ev.shots)].vy>>>>
                             ELSE <<>>])]

UpdateEnemy(g, i, t, dt) ==
  LET e == g.enemies[i]
      dx == g.player.x - e.x
      dy == g.player.y - e.y
      distance == Distance(dx, dy)
      g2 == IF e.type = "melee" THEN UpdateMelee(g, i, dx, dy, distance, dt)
            ELSE IF e.type = "ranged"
            THEN UpdateRanged(g, i, dx, dy, distance, t)
            ELSE IF e.type = "explosive"
            THEN UpdateExplosive(g, i, dx, dy, distance)
            ELSE UpdateChaser(g, i, dx, dy, distance, t, dt)
  IN  IF distance = 0 THEN OnPlayer(g, g2, i) ELSE g2

\* the iterations i down to low in order, the upper half of them and then
\* the lower
RECURSIVE EnemyLoop(_, _, _, _, _)
EnemyLoop(g, i, low, t, dt) ==
  IF i < low THEN g
  ELSE IF i = low THEN UpdateEnemy(g, i, t, dt)
  ELSE LET mid == (i + low + 1) \div 2
           g1 == EnemyLoop(g, i, mid, t, dt)
       IN  IF g1.nextId > 0 THEN EnemyLoop(g1, mid - 1, low, t, dt) ELSE g1

UpdateEnemies(g, t, dt) == EnemyLoop(g, Len(g.enemies), 1, t, dt)


(***************************************************************************)
(* Killing an enemy, Game.tsx 634-640 and 681-691: the recovery and the    *)
(* splice.  j is the index the code splices at.                            *)
(***************************************************************************)
\* a recovery without BLOOD_RECOVERY_MULTIPLIER
BloodRecovery_Whole(e) == G(2 * BASE_RECOVERY * e.level)

\* Math.floor(baseRecovery * enemy.level), baseRecovery = 30 * 0.5
BloodRecovery(e) == G(BASE_RECOVERY * e.level)

\* a kill whose recovery takes the phase back to playing
Kill_Revive(g, j, by) ==
  LET e == g.enemies[j]
      after == g.player.bloodGauge + BloodRecovery(e)
  IN  [g EXCEPT !.player.bloodGauge = after,
                !.gameState = IF after > 0 THEN "playing" ELSE @,
                !.enemies = Splice(@, j),
                !.ev.kills = Append(@, [id |-> e.id, level |-> e.level, by |-> by,
                                        health |-> e.health,
                                        maxHealth |-> e.maxHealth,
                                        before |-> g.player.bloodGauge,
                                        after |-> after])]

Kill(g, j, by) ==
  LET e == g.enemies[j]
  IN  [g EXCEPT !.player.bloodGauge = @ + BloodRecovery(e),
                !.enemies = Splice(@, j),
                !.ev.kills = Append(@, [id |-> e.id, level |-> e.level, by |-> by,
                                        health |-> e.health,
                                        maxHealth |-> e.maxHealth,
                                        before |-> g.player.bloodGauge,
                                        after |-> g.player.bloodGauge
                                                    + BloodRecovery(e)])]

(***************************************************************************)
(* The projectile loop, Game.tsx 575-670.                                  *)
(***************************************************************************)
\* the first enemy at the least distance (strict <), 0 when there is none
RECURSIVE NearestFrom(_, _, _, _, _)
NearestFrom(es, pr, k, best, bestSq) ==
  IF k > Len(es) THEN best
  ELSE IF best = 0 \/ DistSq(es[k], pr) < bestSq
       THEN NearestFrom(es, pr, k + 1, k, DistSq(es[k], pr))
       ELSE NearestFrom(es, pr, k + 1, best, bestSq)

NearestEnemy(es, pr) == NearestFrom(es, pr, 1, 0, 0)

\* v += (desired - v) * PROJECTILE_HOMING_STRENGTH
Interpolate(v, desired) ==
  v + TruncDiv((desired - v) * PROJECTILE_HOMING_STRENGTH, 100)

\* a steering that does not look at the flags of the projectile
Homing_All(pr, es) ==
  LET k == NearestEnemy(es, pr)
  IN  IF k = 0 THEN pr
      ELSE
        LET dx == es[k].x - pr.x
            dy == es[k].y - pr.y
            distance == Distance(dx, dy)
        IN  IF distance > 0
            THEN LET vx == Interpolate(pr.vx, Toward(dx, distance, L(PROJECTILE_SPEED_PLAYER)))
                     vy == Interpolate(pr.vy, Toward(dy, distance, L(PROJECTILE_SPEED_PLAYER)))
                     speed == Distance(vx, vy)
                 IN  IF speed > 0
                     THEN [pr EXCEPT !.vx = Toward(vx, speed, L(PROJECTILE_SPEED_PLAYER)),
                                     !.vy = Toward(vy, speed, L(PROJECTILE_SPEED_PLAYER))]
                     ELSE [pr EXCEPT !.vx = vx, !.vy = vy]
            ELSE pr

\* a steering that does not bring the speed back to PROJECTILE_SPEED_PLAYER
Homing_Unnormalised(pr, es) ==
  LET k == NearestEnemy(es, pr)
  IN  IF ~(pr.fromPlayer /\ pr.homing) \/ k = 0 THEN pr
      ELSE
        LET dx == es[k].x - pr.x
            dy == es[k].y - pr.y
            distance == Distance(dx, dy)
        IN  IF distance > 0
            THEN [pr EXCEPT
                    !.vx = Interpolate(pr.vx, Toward(dx, distance, L(PROJECTILE_SPEED_PLAYER))),
                    !.vy = Interpolate(pr.vy, Toward(dy, distance, L(PROJECTILE_SPEED_PLAYER)))]
            ELSE pr

\* Game.tsx 579-618
Homing(pr, es) ==
  LET k == NearestEnemy(es, pr)
  IN  IF ~(pr.fromPlayer /\ pr.homing) \/ k = 0 THEN pr
      ELSE
        LET dx == es[k].x - pr.x
            dy == es[k].y - pr.y
            distance == Distance(dx, dy)
        IN  IF distance > 0
            THEN LET vx == Interpolate(pr.vx, Toward(dx, distance, L(PROJECTILE_SPEED_PLAYER)))
                     vy == Interpolate(pr.vy, Toward(dy, distance, L(PROJECTILE_SPEED_PLAYER)))
                     speed == Distance(vx, vy)
                 IN  IF speed > 0
                     THEN [pr EXCEPT !.vx = Toward(vx, speed, L(PROJECTILE_SPEED_PLAYER)),
                                     !.vy = Toward(vy, speed, L(PROJECTILE_SPEED_PLAYER))]
                     ELSE [pr EXCEPT !.vx = vx, !.vy = vy]
            ELSE pr

\* the inner loop of Game.tsx 626-644: the index of the first overlapping
\* enemy from the end of the list, 0 when there is none
FirstOverlap(es, pr, j) ==
  LET hit == {k \in 1..j :
                Distance(es[k].x - pr.x, es[k].y - pr.y)
                  < es[k].radius + pr.radius}
  IN  IF hit = {} THEN 0 ELSE CHOOSE k \in hit : \A m \in hit : m <= k

\* Game.tsx 632-643
HitEnemy(g, pr, j) ==
  LET e == [g.enemies[j] EXCEPT !.health = @ - pr.damage]
      g1 == [g EXCEPT !.enemies[j] = e,
                      !.ev.hits = Append(@, [projectile |-> pr.id, enemy |-> e.id,
                                             damage |-> pr.damage])]
  IN  IF e.health <= 0 THEN Kill(g1, j, "projectile") ELSE g1

\* a cull that lets the projectiles of enemies fly on
CullProjectile_PlayerOnly(g, i) ==
  IF g.projectiles[i].fromPlayer
     /\ Abs(g.projectiles[i].y - g.player.y) > L(ScreenHeight) * 2
  THEN [g EXCEPT !.projectiles = Splice(@, i)]
  ELSE g

\* Game.tsx 666-669
CullProjectile(g, i) ==
  IF Abs(g.projectiles[i].y - g.player.y) > L(ScreenHeight) * 2
  THEN [g EXCEPT !.projectiles = Splice(@, i)]
  ELSE g

\* a projectile loop whose player projectiles fly on after a hit
UpdateProjectile_Piercing(g, i) ==
  LET h == Homing(g.projectiles[i], g.enemies)
      pr == [h EXCEPT !.x = @ + h.vx, !.y = @ + h.vy]
      g1 == [g EXCEPT !.projectiles[i] = pr]
  IN  IF pr.fromPlayer
      THEN LET j == FirstOverlap(g1.enemies, pr, Len(g1.enemies))
           IN  IF j > 0 THEN HitEnemy(g1, pr, j) ELSE CullProjectile(g1, i)
      ELSE IF Distance(g1.player.x - pr.x, g1.player.y - pr.y)
                < g1.player.radius + pr.radius
           THEN [Hurt(g1, "projectile", pr.id, pr.damage)
                   EXCEPT !.projectiles = Splice(@, i)]
           ELSE CullProjectile(g1, i)

\* a projectile loop that tests every projectile against the player first
UpdateProjectile_AnyTarget(g, i) ==
  LET h == Homing(g.projectiles[i], g.enemies)
      pr == [h EXCEPT !.x = @ + h.vx, !.y = @ + h.vy]
      g1 == [g EXCEPT !.projectiles[i] = pr]
  IN  IF Distance(g1.player.x - pr.x, g1.player.y - pr.y)
           < g1.player.radius + pr.radius
      THEN [Hurt(g1, "projectile", pr.id, pr.damage)
              EXCEPT !.projectiles = Splice(@, i)]
      ELSE LET j == FirstOverlap(g1.enemies, pr, Len(g1.enemies))
           IN  IF j > 0
               THEN [HitEnemy(g1, pr, j) EXCEPT !.projectiles = Splice(@, i)]
               ELSE CullProjectile(g1, i)

\* history: the projectile was steered while exactly on its nearest enemy
OnTarget(g, pr0, h) ==
  LET k == NearestEnemy(g.enemies, pr0)
  IN  IF pr0.fromPlayer /\ pr0.homing /\ k # 0
         /\ g.enemies[IF k # 0 THEN k ELSE 1].x = pr0.x
         /\ g.enemies[IF k # 0 THEN k ELSE 1].y = pr0.y
      THEN Append(g.ev.onTarget,
                  [id |-> pr0.id, before |-> <<pr0.vx, pr0.vy>>,
                   after |-> <<h.vx, h.vy>>])
      ELSE g.ev.onTarget

UpdateProjectile(g, i) ==
  LET h == Homing(g.projectiles[i], g.enemies)
      pr == [h EXCEPT !.x = @ + h.vx, !.y = @ + h.vy]
      g1 == [g EXCEPT !.projectiles[i] = pr,
                      !.ev.onTarget = OnTarget(g, g.projectiles[i], h)]
  IN  IF pr.fromPlayer
      THEN LET j == FirstOverlap(g1.enemies, pr, Len(g1.enemies))
           IN  IF j > 0
               THEN [HitEnemy(g1, pr, j) EXCEPT !.projectiles = Splice(@, i)]
               ELSE CullProjectile(g1, i)
      ELSE IF Distance(g1.player.x - pr.x, g1.player.y - pr.y)
                < g1.player.radius + pr.radius
           THEN [Hurt(g1, "projectile", pr.id, pr.damage)
                   EXCEPT !.projectiles = Splice(@, i)]
           ELSE CullProjectile(g1, i)

\* the iterations i down to low in order, the upper half of them and then
\* the lower
RECURSIVE ProjectileLoop(_, _, _)
ProjectileLoop(g, i, low) ==
  IF i < low THEN g
  ELSE IF i = low THEN UpdateProjectile(g, i)
  ELSE LET mid == (i + low + 1) \div 2
           g1 == ProjectileLoop(g, i, mid)
       IN  IF g1.nextId > 0 THEN ProjectileLoop(g1, mid - 1, low) ELSE g1

UpdateProjectiles(g) == ProjectileLoop(g, Len(g.projectiles), 1)

(***************************************************************************)
(* Auto-attack, Game.tsx 672-696: for (const enemy of enemies) with a      *)
(* splice inside.  The array iterator keeps an index and re-reads the      *)
(* length: after splice(index, 1) of the current element the next element  *)
(* has moved into the current index, and the iterator steps past it.       *)
(***************************************************************************)
\* enemies.indexOf(enemy): the first index holding that object, 0 for -1
RECURSIVE IndexOf(_, _, _)
IndexOf(es, id, k) ==
  IF k > Len(es) THEN 0
  ELSE IF es[k].id = id THEN k ELSE IndexOf(es, id, k + 1)

\* an attack that leaves an enemy of health exactly zero in the list
AttackEnemy_Strict(g, k) ==
  LET e0 == g.enemies[k]
      distance == Distance(g.player.x - e0.x, g.player.y - e0.y)
  IN  IF distance < g.player.attackRadius
      THEN LET e == [e0 EXCEPT !.health = @ - g.player.attackDamage]
               g1 == [g EXCEPT !.enemies[k] = e]
               index == IndexOf(g1.enemies, e.id, 1)
           IN  IF e.health < 0 /\ index > 0 THEN Kill(g1, index, "attack")
               ELSE g1
      ELSE g

\* the body of the loop for the element at index k
AttackEnemy(g, k) ==
  LET e0 == g.enemies[k]
      distance == Distance(g.player.x - e0.x, g.player.y - e0.y)
  IN  IF distance < g.player.attackRadius
      THEN LET e == [e0 EXCEPT !.health = @ - g.player.attackDamage]
               g1 == [g EXCEPT !.enemies[k] = e]
               index == IndexOf(g1.enemies, e.id, 1)
           IN  IF e.health <= 0 /\ index > 0 THEN Kill(g1, index, "attack")
               ELSE g1
      ELSE g

\* the iterator: next index after the body, whatever the body removed
\* one step of the iterator of for (const enemy of enemies): nothing when
\* the index has passed the end of the array
AttackStep(st) ==
  IF st.k > Len(st.g.enemies) THEN st
  ELSE [g |-> AttackEnemy(st.g, st.k), k |-> st.k + 1]

\* n steps of the iterator, the first half of them and then the second
RECURSIVE AttackSteps(_, _)
AttackSteps(st, n) ==
  IF n <= 0 THEN st
  ELSE IF n = 1 THEN AttackStep(st)
  ELSE LET st1 == AttackSteps(st, n \div 2)
       IN  IF st1.k > 0 THEN AttackSteps(st1, n - (n \div 2)) ELSE st1

\* the array only shrinks and the index moves on by one at every step, so
\* the iterator is done after as many steps as the array is long
AttackLoop(g, k) == AttackSteps([g |-> g, k |-> k], Len(g.enemies)).g

AutoAttack(g, t) ==
  IF t - g.player.lastAttackTime > g.player.attackCooldown
  THEN [AttackLoop([g EXCEPT !.ev.attack = [fired |-> TRUE, before |-> g.enemies]], 1)
          EXCEPT !.player.lastAttackTime = t]
  ELSE g

(***************************************************************************)
(* update(deltaTime) as a whole, and the frame of the game loop (Game.tsx  *)
(* 276-285).  The loop runs while gameState is 'playing': the effect's     *)
(* cleanup cancels the pending frame when gameState changes.               *)
(***************************************************************************)
Game ==
  [player |-> player, enemies |-> enemies, projectiles |-> projectiles,
   gameState |-> gameState, score |-> score, cameraY |-> cameraY,
   darknessY |-> darknessY, lastSpawnTime |-> lastSpawnTime,
   ui |-> ui, random |-> random, nextId |-> nextId,
   ev |-> [NoEvents EXCEPT !.low = player.bloodGauge]]

Drain(g, dt) ==
  LET p2 == [g.player EXCEPT !.bloodGauge = @ - DrainAmount(g.player, dt)]
  IN  [g EXCEPT !.player = p2, !.ev.low = Min(@, p2.bloodGauge)]

GameOver(g, exit) == [g EXCEPT !.gameState = "gameover", !.ev.exit = exit]

\* a darkness that must reach the player's centre from above its top edge
Caught_TopEdge(g) == g.player.y - g.player.radius >= g.darknessY

\* Game.tsx 410
Caught(g) == g.player.y >= g.darknessY

\* a darkness that rises by a whole pixel per frame
Hazard_Fast(g) ==
  LET p2 == MovePlayer(g.player)
  IN  [g EXCEPT !.player = p2,
                !.cameraY = CameraOf(p2),
                !.darknessY = @ - 2 * DARKNESS_RISE_SPEED]

\* a darkness that does not rise
Hazard_Still(g) ==
  LET p2 == MovePlayer(g.player)
  IN  [g EXCEPT !.player = p2, !.cameraY = CameraOf(p2)]

Hazard(g) ==
  LET p2 == MovePlayer(g.player)
  IN  [g EXCEPT !.player = p2,
                !.cameraY = CameraOf(p2),
                !.darknessY = @ - DARKNESS_RISE_SPEED]

\* a frame that moves the player and the darkness before it ends on the drain
update_DrainLate(g0, dt, t, sc) ==
  LET g1 == Drain(g0, dt)
  IN  IF g1.player.bloodGauge <= 0 THEN GameOver(Hazard(g1), "drain")
      ELSE
        LET g2 == [g1 EXCEPT !.player = KeyboardInput(@)]
            g3 == PlayerShoot(g2, t)
            g4 == Hazard(g3)
        IN  IF Caught(g4) THEN GameOver(g4, "darkness")
            ELSE
              LET g5 == [g4 EXCEPT !.score = ScoreOf(g4.cameraY),
                                   !.ui = UiOf(g4.player)]
                  g6 == SpawnCheck(g5, sc, t)
                  g7 == UpdateEnemies(g6, t, dt)
                  g8 == UpdateProjectiles(g7)
              IN  AutoAttack(g8, t)

\* a frame on which the enemies still move, shoot and strike after the
\* darkness has caught the player
update_DarknessLate(g0, dt, t, sc) ==
  LET g1 == Drain(g0, dt)
  IN  IF g1.player.bloodGauge <= 0 THEN GameOver(g1, "drain")
      ELSE
        LET g2 == [g1 EXCEPT !.player = KeyboardInput(@)]
            g3 == PlayerShoot(g2, t)
            g4 == Hazard(g3)
        IN  IF Caught(g4) THEN GameOver(UpdateEnemies(g4, t, dt), "darkness")
            ELSE
              LET g5 == [g4 EXCEPT !.score = ScoreOf(g4.cameraY),
                                   !.ui = UiOf(g4.player)]
                  g6 == SpawnCheck(g5, sc, t)
                  g7 == UpdateEnemies(g6, t, dt)
                  g8 == UpdateProjectiles(g7)
              IN  AutoAttack(g8, t)

\* a frame that ends on the drain only when bloodGauge is below 0
update_DrainStrict(g0, dt, t, sc) ==
  LET g1 == Drain(g0, dt)
  IN  IF g1.player.bloodGauge < 0 THEN GameOver(g1, "drain")
      ELSE
        LET g2 == [g1 EXCEPT !.player = KeyboardInput(@)]
            g3 == PlayerShoot(g2, t)
            g4 == Hazard(g3)
        IN  IF Caught(g4) THEN GameOver(g4, "darkness")
            ELSE
              LET g5 == [g4 EXCEPT !.score = ScoreOf(g4.cameraY),
                                   !.ui = UiOf(g4.player)]
                  g6 == SpawnCheck(g5, sc, t)
                  g7 == UpdateEnemies(g6, t, dt)
                  g8 == UpdateProjectiles(g7)
              IN  AutoAttack(g8, t)

update(g0, dt, t, sc) ==
  LET g1 == Drain(g0, dt)
  IN  IF g1.player.bloodGauge <= 0 THEN GameOver(g1, "drain")
      ELSE
        LET g2 == [g1 EXCEPT !.player = KeyboardInput(@)]
            g3 == PlayerShoot(g2, t)
            g4 == Hazard(g3)
        IN  IF Caught(g4) THEN GameOver(g4, "darkness")
            ELSE
              LET g5 == [g4 EXCEPT !.score = ScoreOf(g4.cameraY),
                                   !.ui = UiOf(g4.player)]
                  g6 == SpawnCheck(g5, sc, t)
                  g7 == UpdateEnemies(g6, t, dt)
                  g8 == UpdateProjectiles(g7)
              IN  AutoAttack(g8, t)

Tick(dt, maxTicks) ==
  /\ gameState = "playing"
  /\ ticks < maxTicks
  /\ \E g \in {update(Game, dt, now + dt, loopScore)} :
         /\ player' = g.player
         /\ enemies' = g.enemies
         /\ projectiles' = g.projectiles
         /\ gameState' = g.gameState
         /\ score' = g.score
         /\ ui' = g.ui
         /\ cameraY' = g.cameraY
         /\ darknessY' = g.darknessY
         /\ lastSpawnTime' = g.lastSpawnTime
         /\ random' = g.random
         /\ nextId' = g.nextId
         /\ log' = [kind |-> "tick", dt |-> dt, pre |-> Snapshot, ev |-> g.ev]
  /\ now' = now + dt
  /\ ticks' = ticks + 1
  /\ UNCHANGED <<keys, touchStart, loopScore, inputs, runs>>

(***************************************************************************)
(* Spec: play near the altitude of the start, by touch.                    *)
(***************************************************************************)
Next ==
  \/ \E touch \in BOOLEAN : StartRun(touch)
  \/ Restart
  \/ strengthenAttack
  \/ strengthenRange
  \/ strengthenSpeed
  \/ strengthenProjectile
  \/ handleTouchStart
  \/ \E d \in DragDeltas : handleTouchMove(d, MaxInputs)
  \/ handleTouchEnd
  \/ \E dt \in DeltaTimes : Tick(dt, MaxTicks)

Spec == Init /\ [][Next]_vars

(***************************************************************************)
(* SpecClimb: play after a long climb, where waves are large and enemies   *)
(* of level 10 and more appear.                                            *)
(***************************************************************************)
NextClimb ==
  \/ StartRun(TRUE)
  \/ strengthenProjectile
  \/ \E d \in ClimbDeltas : handleTouchMove(d, MaxClimbDrags)
  \/ \E dt \in DeltaTimes : Tick(dt, MaxClimbTicks)

SpecClimb == Init /\ [][NextClimb]_vars

(***************************************************************************)
(* SpecKeys: play near the altitude of the start, by keyboard.             *)
(***************************************************************************)
NextKeys ==
  \/ StartRun(FALSE)
  \/ strengthenSpeed
  \/ \E k \in ArrowKeys : handleKeyDown(k, MaxKeys)
  \/ \E k \in ArrowKeys : handleKeyUp(k)
  \/ \E dt \in DeltaTimes : Tick(dt, MaxKeyTicks)

SpecKeys == Init /\ [][NextKeys]_vars

(***************************************************************************)
(* SpecSpawn: waves at the altitudes of the level tiers 1-5, 6-9, 10-19    *)
(* and 20+, with a stream of draws that holds the thresholds of the type   *)
(* tables and their neighbours.                                            *)
(***************************************************************************)
InitSpawn ==
  /\ gameState = "start"
  /\ score = 0
  /\ ui = InitialUi
  /\ player = InitialPlayer
  /\ enemies = <<>>
  /\ projectiles = <<>>
  /\ keys = {}
  /\ touchStart = FALSE
  /\ cameraY = 0
  /\ lastSpawnTime = 0
  /\ darknessY = 0
  /\ now = PageLoadTime
  /\ loopScore = 0
  /\ \E stream \in SpawnStreams : random = [stream |-> stream, n |-> 0]
  /\ nextId = 1
  /\ ticks = 0 /\ inputs = 0 /\ runs = 1
  /\ log = NoLog

NextSpawn ==
  \/ StartRun(TRUE)
  \/ \E d \in SpawnDeltas : handleTouchMove(d, MaxSpawnDrags)
  \/ \E dt \in DeltaTimes : Tick(dt, MaxSpawnTicks)

SpecSpawn == InitSpawn /\ [][NextSpawn]_vars

(***************************************************************************)
(* SpecLevels: keyboard play with the attack, range and speed upgrades and *)
(* the restart of a run that the upgrades and the drain have ended.        *)
(***************************************************************************)
NextLevels ==
  \/ StartRun(FALSE)
  \/ Restart
  \/ strengthenAttack
  \/ strengthenRange
  \/ strengthenSpeed
  \/ \E k \in ArrowKeys : handleKeyDown(k, MaxLevelKeys)
  \/ \E dt \in LevelDeltaTimes : Tick(dt, MaxLevelTicks)

SpecLevels == Init /\ [][NextLevels]_vars

(***************************************************************************)
(* SpecVolley: a run whose player has bought projectile upgrades.  A kill  *)
(* gives back BASE_RECOVERY * level of bloodGauge, so a long run reaches   *)
(* every projectile level; the runs the other specifications explore are   *)
(* too short for the levels at which a volley has two or three             *)
(* projectiles.  This one starts from the run initialisation of Game.tsx   *)
(* 254-272 with the player at one of these levels, a finger on the screen  *)
(* and a full bloodGauge.                                                  *)
(***************************************************************************)
\* a run in which an enemy comes to stand exactly on the player, without
\* and with homing projectiles
InitOverlap ==
  /\ gameState = "playing"
  /\ score = 0
  /\ \E level \in OverlapLevels :
       player = [RunInitPlayer(InitialPlayer) EXCEPT !.projectileLevel = level]
  /\ ui = UiOf(player)
  /\ enemies = <<>>
  /\ projectiles = <<>>
  /\ keys = {}
  /\ touchStart = TRUE
  /\ cameraY = 0
  /\ lastSpawnTime = PageLoadTime
  /\ darknessY = player.y + L(DARKNESS_START_OFFSET)
  /\ now = PageLoadTime
  /\ loopScore = 0
  /\ \E stream \in RandomStreams : random = [stream |-> stream, n |-> 0]
  /\ nextId = 1
  /\ ticks = 0 /\ inputs = 0 /\ runs = 1
  /\ log = NoLog

NextOverlap ==
  \/ \E d \in OverlapDeltas : handleTouchMove(d, MaxOverlapDrags)
  \/ \E dt \in DeltaTimes : Tick(dt, MaxOverlapTicks)

SpecOverlap == InitOverlap /\ [][NextOverlap]_vars

\* a run at the altitude of the explosive enemies, by a player who has
\* bought no attack upgrade or sixty of them
InitBlast ==
  /\ gameState = "playing"
  /\ score = 0
  /\ \E level \in BlastLevels :
       player = [RunInitPlayer(InitialPlayer)
                   EXCEPT !.attackLevel = level,
                          !.attackDamage = @ + level * H(DAMAGE_INCREASE_PER_LEVEL)]
  /\ ui = UiOf(player)
  /\ enemies = <<>>
  /\ projectiles = <<>>
  /\ keys = {}
  /\ touchStart = TRUE
  /\ cameraY = 0
  /\ lastSpawnTime = PageLoadTime
  /\ darknessY = player.y + L(DARKNESS_START_OFFSET)
  /\ now = PageLoadTime
  /\ loopScore = 0
  /\ \E stream \in RandomStreams : random = [stream |-> stream, n |-> 0]
  /\ nextId = 1
  /\ ticks = 0 /\ inputs = 0 /\ runs = 1
  /\ log = NoLog

NextBlast ==
  \/ \E d \in BlastDrags : handleTouchMove(d, MaxBlastDrags)
  \/ \E dt \in BlastDeltaTimes : Tick(dt, MaxBlastTicks)

SpecBlast == InitBlast /\ [][NextBlast]_vars

\* a run among enemies of all types with frames that last several cooldowns
NextLag ==
  \/ StartRun(TRUE)
  \/ strengthenProjectile
  \/ \E d \in LagDeltas : handleTouchMove(d, MaxLagDrags)
  \/ \E dt \in LagDeltaTimes : Tick(dt, MaxLagTicks)

SpecLag == InitSpawn /\ [][NextLag]_vars

\* two runs on a device with keys and a touch screen: the runs are started
\* by a touch or by the space key and ended by a drag into the darkness
NextRestart ==
  \/ \E touch \in BOOLEAN : StartRun(touch)
  \/ Restart
  \/ \E d \in RestartDrags : handleTouchMove(d, MaxRestartInputs)
  \/ handleKeyDown("ArrowUp", MaxRestartInputs)
  \/ handleKeyUp("ArrowUp")
  \/ \E dt \in RestartDeltaTimes : Tick(dt, MaxRestartTicks)

SpecRestart == Init /\ [][NextRestart]_vars

\* the deltaTime of a frame: the long ones come among the first frames
DarkFrames ==
  IF ticks < MaxDarkEarly THEN DarkDeltaTimes \cup DarkLongDeltaTimes
  ELSE DarkDeltaTimes

\* one run of up to 401 frames; the choices are made around its first frames
NextDark ==
  \/ StartRun(TRUE)
  \/ ticks < MaxDarkEarly /\ strengthenAttack
  \/ ticks < MaxDarkEarly /\ \E d \in DarkDrags : handleTouchMove(d, MaxDarkInputs)
  \/ \E dt \in DarkFrames : Tick(dt, MaxDarkTicks)

SpecDark == Init /\ [][NextDark]_vars

\* upgrades and long frames that empty the gauge, with a drag and a key held
NextDrain ==
  \/ StartRun(TRUE)
  \/ strengthenAttack
  \/ strengthenProjectile
  \/ \E d \in DrainDrags : handleTouchMove(d, MaxDrainInputs)
  \/ handleKeyDown("ArrowLeft", MaxDrainInputs)
  \/ \E dt \in DrainDeltaTimes : Tick(dt, MaxDrainTicks)

SpecDrain == InitSpawn /\ [][NextDrain]_vars

\* the four upgrades, among enemies whose damage the buttons have not yet
\* been rendered with, and frames whose deltaTime may be 0
NextZero ==
  \/ StartRun(TRUE)
  \/ strengthenAttack
  \/ strengthenRange
  \/ strengthenSpeed
  \/ strengthenProjectile
  \/ \E d \in ZeroDrags : handleTouchMove(d, MaxZeroDrags)
  \/ \E dt \in ZeroDeltaTimes : Tick(dt, MaxZeroTicks)

SpecZero == Init /\ [][NextZero]_vars

\* drags to the walls and the floor, arrow keys held against them
NextMove ==
  \/ StartRun(TRUE)
  \/ \E d \in MoveDrags : handleTouchMove(d, MaxMoveInputs)
  \/ \E k \in ArrowKeys : handleKeyDown(k, MaxMoveInputs)
  \/ \E dt \in MoveDeltaTimes : Tick(dt, MaxMoveTicks)

SpecMove == Init /\ [][NextMove]_vars

InitVolley ==
  /\ gameState = "playing"
  /\ score = 0
  /\ \E level \in VolleyLevels :
       player = [RunInitPlayer(InitialPlayer) EXCEPT !.projectileLevel = level]
  /\ ui = UiOf(player)
  /\ enemies = <<>>
  /\ projectiles = <<>>
  /\ keys = {}
  /\ touchStart = TRUE
  /\ cameraY = 0
  /\ lastSpawnTime = PageLoadTime
  /\ darknessY = player.y + L(DARKNESS_START_OFFSET)
  /\ now = PageLoadTime
  /\ loopScore = 0
  /\ \E stream \in RandomStreams : random = [stream |-> stream, n |-> 0]
  /\ nextId = 1
  /\ ticks = 0 /\ inputs = 0 /\ runs = 1
  /\ log = NoLog

NextVolley ==
  \/ strengthenProjectile
  \/ \E d \in VolleyDeltas : handleTouchMove(d, MaxVolleyDrags)
  \/ \E dt \in VolleyDeltaTimes : Tick(dt, MaxVolleyTicks)

SpecVolley == InitVolley /\ [][NextVolley]_vars

(***************************************************************************)
(* Properties of the upgrade actions.                                      *)
(***************************************************************************)
\* the level of a track in a player record
LevelOf(p, track) ==
  CASE track = "attack" -> p.attackLevel
    [] track = "range" -> p.rangeLevel
    [] track = "speed" -> p.speedLevel
    [] track = "projectile" -> p.projectileLevel

\* the upgrade just attempted was affordable: bloodGauge >= 50 * (level + 1)
Affordable ==
  log.pre.player.bloodGauge >=
    G(50) * (LevelOf(log.pre.player, log.track) + 1)

\* C1: an upgrade of any of the four tracks succeeds (its level goes up by
\* exactly one) if and only if bloodGauge >= 50 * (level + 1) when it is
\* called, and a successful upgrade deducts exactly that cost.
C1_UpgradeIffAffordable ==
  log.kind = "upgrade" =>
    LET pre == log.pre.player
        lvl == LevelOf(pre, log.track)
    IN  /\ Affordable <=> LevelOf(player, log.track) = lvl + 1
        /\ ~Affordable => LevelOf(player, log.track) = lvl
        /\ Affordable =>
             player.bloodGauge = pre.bloodGauge - G(50) * (lvl + 1)

\* an upgrade bought with a gauge that is exactly its cost
C1_Witness ==
  /\ log.kind = "upgrade"
  /\ log.pre.player.bloodGauge = G(50)
  /\ LevelOf(log.pre.player, log.track) = 0
  /\ LevelOf(player, log.track) = 1
  /\ player.bloodGauge = 0

\* C2: an upgrade called with bloodGauge below the cost is a silent no-op:
\* the gauge, the four levels, attackDamage, attackRadius, the phase and
\* the enemy and projectile lists are what they were.
C2_FailedUpgradeNoOp ==
  (log.kind = "upgrade" /\ ~Affordable) =>
    /\ player.bloodGauge = log.pre.player.bloodGauge
    /\ player.attackLevel = log.pre.player.attackLevel
    /\ player.rangeLevel = log.pre.player.rangeLevel
    /\ player.speedLevel = log.pre.player.speedLevel
    /\ player.projectileLevel = log.pre.player.projectileLevel
    /\ player.attackDamage = log.pre.player.attackDamage
    /\ player.attackRadius = log.pre.player.attackRadius
    /\ gameState = log.pre.gameState
    /\ enemies = log.pre.enemies
    /\ projectiles = log.pre.projectiles

\* an upgrade was called although the gauge no longer covered its cost
C2_Witness ==
  /\ log.kind = "upgrade"
  /\ ~Affordable
  /\ log.pre.player.bloodGauge > 0

(***************************************************************************)
(* Properties of the run: drain, darkness, phases, levels.                 *)
(***************************************************************************)
\* C3: on a frame with positive deltaTime in which no kill adds recovery,
\* bloodGauge ends strictly below where it began; when it ends at or below
\* zero the phase is gameover after that frame; and a phase of gameover
\* is left only by the restart action.
C3_DrainEndsRun ==
  /\ [](log.kind = "tick" /\ log.dt > 0 /\ log.ev.kills = <<>> =>
          /\ player.bloodGauge < log.pre.player.bloodGauge
          /\ player.bloodGauge <= 0 => gameState = "gameover")
  /\ [][gameState = "gameover" =>
          \/ gameState' = "gameover"
          \/ log'.kind = "restart"]_vars

\* a frame without contact or kill on which the drain alone emptied the gauge
C3_Witness ==
  /\ log.kind = "tick"
  /\ log.dt > 0
  /\ log.ev.kills = <<>>
  /\ log.ev.hurts = <<>>
  /\ log.pre.gameState = "playing"
  /\ player.bloodGauge <= 0
  /\ gameState = "gameover"

\* C4: on a frame that reaches the darkness test, that is after the player
\* has moved and darknessY has been decremented, the run ends by darkness
\* when playerY >= darknessY; and when playerY < darknessY the phase is
\* gameover after the frame only if bloodGauge fell to zero or below.
C4_DarknessEndsRun ==
  (log.kind = "tick" /\ log.ev.exit # "drain") =>
    /\ darknessY = log.pre.darknessY - 1
    /\ player.y >= darknessY =>
         gameState = "gameover" /\ log.ev.exit = "darkness"
    /\ player.y < darknessY =>
         /\ log.ev.exit # "darkness"
         /\ gameState = "gameover" => log.ev.low <= 0

\* the darkness caught a player whose gauge was not empty
C4_Witness ==
  /\ log.kind = "tick"
  /\ log.ev.exit = "darkness"
  /\ log.pre.gameState = "playing"
  /\ player.y >= darknessY
  /\ player.bloodGauge > 0
  /\ gameState = "gameover"

\* C5: the phase changes only from start to playing by the start action,
\* from playing to gameover by a frame on which bloodGauge fell to zero or
\* below or playerY >= darknessY, and from gameover to start by the restart
\* action; every frame begun in the playing phase ends in playing or
\* gameover.
C5_PhaseTransitions ==
  [][/\ gameState' # gameState =>
          \/ /\ gameState = "start" /\ gameState' = "playing"
             /\ log'.kind = "start"
          \/ /\ gameState = "playing" /\ gameState' = "gameover"
             /\ log'.kind = "tick"
             /\ log'.ev.low <= 0 \/ player'.y >= darknessY'
          \/ /\ gameState = "gameover" /\ gameState' = "start"
             /\ log'.kind = "restart"
     /\ log'.kind = "tick" =>
          gameState = "playing" /\ gameState' \in {"playing", "gameover"}
    ]_vars

\* a run that was ended by the darkness has been restarted
C5_Witness ==
  /\ log.kind = "restart"
  /\ log.pre.gameState = "gameover"
  /\ log.pre.player.y >= log.pre.darknessY
  /\ gameState = "start"

\* the four levels of a player record
Levels(p) ==
  <<p.attackLevel, p.rangeLevel, p.speedLevel, p.projectileLevel>>

\* C6: no step other than the restart action lowers attackLevel,
\* rangeLevel, speedLevel or projectileLevel, and after the restart action
\* all four are 0.
C6_LevelsMonotone ==
  [][IF log'.kind = "restart"
     THEN Levels(player') = <<0, 0, 0, 0>>
     ELSE \A i \in 1..4 : Levels(player')[i] >= Levels(player)[i]]_vars

\* a restart after a run in which two tracks were upgraded
C6_Witness ==
  /\ log.kind = "restart"
  /\ log.pre.player.projectileLevel > 0
  /\ log.pre.player.rangeLevel > 0
  /\ Levels(player) = <<0, 0, 0, 0>>

(***************************************************************************)
(* Properties of combat.                                                   *)
(***************************************************************************)
\* the enemies of the list es that carry the id
WithId(es, id) == {j \in 1..Len(es) : es[j].id = id}

\* the enemy was within attackRadius of the player when the auto-attack ran
InAttackRange(e) ==
  Distance(player.x - e.x, player.y - e.y) < player.attackRadius

\* C7: on every frame where the auto-attack fires, every enemy within
\* attackRadius of the player loses exactly attackDamage health, or is
\* removed when that brings its health to zero or below, also when several
\* enemies are removed during that attack.
C7_AttackHitsAll ==
  (log.kind = "tick" /\ log.ev.attack.fired) =>
    \A i \in 1..Len(log.ev.attack.before) :
      LET e == log.ev.attack.before[i]
      IN  InAttackRange(e) =>
            IF e.health - player.attackDamage <= 0
            THEN WithId(enemies, e.id) = {}
            ELSE \E j \in WithId(enemies, e.id) :
                   enemies[j].health = e.health - player.attackDamage

\* the ids carried by a list of enemies or of event records
Ids(es) == {es[j].id : j \in 1..Len(es)}

\* the enemy list the frame worked on: the list it began with and the
\* wave it spawned
FrameEnemies == log.pre.enemies \o log.ev.spawned

C9_SurvivorsAlive ==
  \A i \in 1..Len(enemies) : enemies[i].health > 0

\* a frame that killed one enemy and left a wounded one in the list
C9_Witness ==
  /\ log.kind = "tick"
  /\ log.ev.kills # <<>>
  /\ \E i \in 1..Len(enemies) : enemies[i].health < enemies[i].maxHealth

\* the explosive enemies the frame found nearer than the trigger distance
Triggered ==
  {j \in 1..Len(FrameEnemies) :
     /\ FrameEnemies[j].type = "explosive"
     /\ Distance(player.x - FrameEnemies[j].x, player.y - FrameEnemies[j].y)
          < L(80)}

\* C10: an explosive enemy nearer to the player than 80 on a frame takes
\* damage * 3 * max(0, 1 - d/100) from bloodGauge, once, and is out of the
\* enemy list after that frame; and a frame moves, charges damage to,
\* kills, explodes or culls only enemies of the list it began with or of
\* the wave it spawned, so that an exploded enemy takes part in no later
\* frame.
C10_ExplodeOnce ==
  (log.kind = "tick" /\ log.ev.exit = "end") =>
    /\ \A j \in Triggered :
         /\ FrameEnemies[j].id \notin Ids(enemies)
         /\ \E x \in 1..Len(log.ev.explosions) :
              log.ev.explosions[x].id = FrameEnemies[j].id
    /\ \A x \in 1..Len(log.ev.explosions) :
         LET ex == log.ev.explosions[x]
         IN  /\ ex.distance < L(80)
             /\ ex.before - ex.after =
                  TruncDiv(ex.damage * 3 * Max(0, L(100) - ex.distance), L(100))
             /\ ex.id \notin Ids(enemies)
             /\ \A x2 \in 1..Len(log.ev.explosions) :
                  log.ev.explosions[x2].id = ex.id => x2 = x
             /\ \A h \in 1..Len(log.ev.hurts) :
                  (log.ev.hurts[h].id = ex.id) =>
                    /\ log.ev.hurts[h].src = "explosion"
                    /\ log.ev.hurts[h].amount = ex.before - ex.after
    /\ Ids(enemies) \subseteq Ids(FrameEnemies)
    /\ Ids(log.ev.kills) \cup Ids(log.ev.explosions) \subseteq Ids(FrameEnemies)
    /\ \A h \in 1..Len(log.ev.hurts) :
         log.ev.hurts[h].src \in {"contact", "explosion"} =>
           log.ev.hurts[h].id \in Ids(FrameEnemies)

\* a frame on which an enemy exploded nearer than 80, charged its damage
\* and left the player alive to play the next frame
C10_Witness ==
  /\ log.kind = "tick"
  /\ log.ev.explosions # <<>>
  /\ log.ev.explosions[1].before > log.ev.explosions[1].after
  /\ gameState = "playing"

(***************************************************************************)
(* Properties of projectiles.                                              *)
(***************************************************************************)
\* the projectiles the frame worked on: those in flight when it began,
\* the player's volley and the shots of the enemies
FrameProjectiles == log.pre.projectiles \o log.ev.volley \o log.ev.shots

\* the sum of f[i] over the sequence f of integers
RECURSIVE SumSeq(_)
SumSeq(f) == IF f = <<>> THEN 0 ELSE Head(f) + SumSeq(Tail(f))

\* what the hits of the frame took from the enemy with the id
HitDamage(id) ==
  SumSeq([h \in 1..Len(log.ev.hits) |->
            IF log.ev.hits[h].enemy = id THEN log.ev.hits[h].damage ELSE 0])

\* C11: a projectile with fromPlayer never takes bloodGauge from the
\* player and a projectile without it never takes health from an enemy:
\* every loss of bloodGauge to a projectile comes from an enemy's
\* projectile, every hit on an enemy from a player's projectile, the gauge
\* changes by nothing but the drain, the losses to enemies and the
\* recoveries, and without an auto-attack a surviving enemy has lost
\* exactly what the player's projectiles that hit it carried.
C11_ProjectileSides ==
  (log.kind = "tick" /\ log.ev.exit = "end") =>
    /\ \A h \in 1..Len(log.ev.hurts) :
         log.ev.hurts[h].src = "projectile" =>
           \E k \in 1..Len(FrameProjectiles) :
             /\ FrameProjectiles[k].id = log.ev.hurts[h].id
             /\ ~FrameProjectiles[k].fromPlayer
    /\ \A h \in 1..Len(log.ev.hits) :
         \E k \in 1..Len(FrameProjectiles) :
           /\ FrameProjectiles[k].id = log.ev.hits[h].projectile
           /\ FrameProjectiles[k].fromPlayer
    /\ player.bloodGauge =
         log.pre.player.bloodGauge
           - (2 + log.pre.player.attackLevel) * log.dt
           - SumSeq([h \in 1..Len(log.ev.hurts) |-> log.ev.hurts[h].amount])
           + SumSeq([k \in 1..Len(log.ev.kills) |->
                       log.ev.kills[k].after - log.ev.kills[k].before])
    /\ ~log.ev.attack.fired =>
         \A i \in 1..Len(enemies) :
           \E j \in WithId(FrameEnemies, enemies[i].id) :
             enemies[i].health = FrameEnemies[j].health - HitDamage(enemies[i].id)

\* a frame on which an enemy's projectile hit the player and a player's
\* projectile hit an enemy
C11_Witness ==
  /\ log.kind = "tick"
  /\ log.ev.hits # <<>>
  /\ \E h \in 1..Len(log.ev.hurts) : log.ev.hurts[h].src = "projectile"

\* the ids of the projectiles that hit something on the frame: an enemy
\* (hits) or the player (hurts by a projectile)
Spent ==
  [h \in 1..Len(log.ev.hits) |-> log.ev.hits[h].projectile]
    \o SelectSeq([h \in 1..Len(log.ev.hurts) |->
                    IF log.ev.hurts[h].src = "projectile"
                    THEN log.ev.hurts[h].id ELSE 0],
                 LAMBDA id : id # 0)

\* C12: a projectile applies its damage at most once: on a frame no
\* projectile hits twice, a projectile that hit an enemy or the player is
\* out of the projectile list after that frame, and the list holds only
\* projectiles that were in flight or were fired on the frame, so that a
\* projectile that has hit takes part in no later frame.
C12_ProjectileOnce ==
  log.kind = "tick" =>
    /\ \A a, b \in 1..Len(Spent) : Spent[a] = Spent[b] => a = b
    /\ \A a \in 1..Len(Spent) :
         /\ Spent[a] \in Ids(FrameProjectiles)
         /\ Spent[a] \notin Ids(projectiles)
    /\ Ids(projectiles) \subseteq Ids(FrameProjectiles)
    /\ Len(projectiles) <= Len(FrameProjectiles) - Len(Spent)
    /\ \A a, b \in 1..Len(projectiles) :
         projectiles[a].id = projectiles[b].id => a = b

\* a frame on which two enemy projectiles hit the player and a player's
\* projectile hit an enemy while another projectile flew on
C12_Witness ==
  /\ log.kind = "tick"
  /\ log.ev.hits # <<>>
  /\ Len(Spent) >= 3
  /\ projectiles # <<>>

\* a frame on which update called spawnEnemyWave: lastSpawnTime moved
WaveSpawned == log.kind = "tick" /\ lastSpawnTime # log.pre.lastSpawnTime

\* the altitude spawnEnemyWave read: the player does not move after the
\* spawn check of the frame
Altitude == Max(0, -player.y)

C14_WaveAt2000 ==
  /\ (runs = 1 /\ gameState = "playing" /\ now = PageLoadTime + SPAWN_INTERVAL)
       => (lastSpawnTime > PageLoadTime /\ nextId > 1)
  /\ WaveSpawned =>
       /\ Len(log.ev.spawned) >= 1
       /\ \A i \in 1..Len(log.ev.spawned) :
            /\ log.ev.spawned[i].y < player.y - (L(ScreenHeight) \div 2)
            /\ log.ev.spawned[i].y
                 <= player.y - (L(ScreenHeight) \div 2) - L(100)

\* C15: an enemy spawned at altitude A = -spawnY has level
\* max(1, floor(A / 500) + 1): 1 for A below 500 (negative A included), 2
\* for A in 500..999; the level is at least 1, and an enemy that is still
\* there after a frame has the level it had before it.
C15_LevelByAltitude ==
  log.kind = "tick" =>
    /\ \A i \in 1..Len(log.ev.spawned) :
         LET e == log.ev.spawned[i]
             A == -e.y
         IN  /\ e.level >= 1
             /\ A < L(500) => e.level = 1
             /\ (A >= L(500) /\ A < L(1000)) => e.level = 2
             /\ \E k \in 0..40 :
                  /\ k * L(500) <= A /\ A < (k + 1) * L(500)
                  /\ e.level = k + 1
                \/ A < 0
    /\ \A i \in 1..Len(enemies) :
         \E j \in WithId(FrameEnemies, enemies[i].id) :
           enemies[i].level = FrameEnemies[j].level

\* a frame that spawned enemies and kept a level-2 enemy that was there
\* before and has come down to an altitude below 500
C15_Witness ==
  /\ log.kind = "tick"
  /\ log.ev.spawned # <<>>
  /\ \E i \in 1..Len(enemies) :
       /\ enemies[i].level = 2
       /\ -enemies[i].y < L(500)
       /\ enemies[i].id \in Ids(log.pre.enemies)

\* the type draws of the frame taken for the enemy with this id
TypeDrawsOf(id) ==
  {k \in 1..Len(log.ev.typeDraws) : log.ev.typeDraws[k].id = id}

\* the first type, in the order melee, ranged, explosive, chaser, whose
\* cumulative threshold (percent) is above the draw; the last type has the
\* threshold 100
TypeByThresholds(r, melee, ranged, explosive) ==
  IF r < melee THEN "melee"
  ELSE IF r < ranged THEN "ranged"
  ELSE IF r < explosive THEN "explosive"
  ELSE "chaser"

\* C16: an enemy spawned at level 1-5 is melee and takes no type draw; an
\* enemy spawned at a higher level takes exactly one draw r and gets the
\* first type whose cumulative threshold is above r: 0.5 / 1 at level 6-9,
\* 0.4 / 0.7 / 1 at level 10-19, 0.3 / 0.55 / 0.8 / 1 at level 20 and
\* above.  No ranged enemy is below level 6, no explosive one below level
\* 10, no chaser below level 20.
C16_TypeByTier ==
  /\ log.kind = "tick" =>
       \A i \in 1..Len(log.ev.spawned) :
         LET e == log.ev.spawned[i]
         IN  IF e.level <= 5
             THEN e.type = "melee" /\ TypeDrawsOf(e.id) = {}
             ELSE /\ Cardinality(TypeDrawsOf(e.id)) = 1
                  /\ \A k \in TypeDrawsOf(e.id) :
                       LET r == log.ev.typeDraws[k].r
                       IN  /\ r \in 0..99
                           /\ e.level \in 6..9 =>
                                e.type = TypeByThresholds(r, 50, 100, 100)
                           /\ e.level \in 10..19 =>
                                e.type = TypeByThresholds(r, 40, 70, 100)
                           /\ e.level >= 20 =>
                                e.type = TypeByThresholds(r, 30, 55, 80)
  /\ \A i \in 1..Len(enemies) :
       /\ enemies[i].type = "ranged" => enemies[i].level >= 6
       /\ enemies[i].type = "explosive" => enemies[i].level >= 10
       /\ enemies[i].type = "chaser" => enemies[i].level >= 20

\* a wave at level 20 or above with the draws 0.3, 0.55 and 0.8 and with
\* enemies of all four types
C16_Witness ==
  /\ log.kind = "tick"
  /\ \A r \in {30, 55, 80} :
       \E k \in 1..Len(log.ev.typeDraws) : log.ev.typeDraws[k].r = r
  /\ \A t \in {"melee", "ranged", "explosive", "chaser"} :
       \E i \in 1..Len(log.ev.spawned) :
         log.ev.spawned[i].type = t /\ log.ev.spawned[i].level >= 20

\* C17: an enemy spawned while the score of the run is s has
\* health = maxHealth = 30 * (1 + s / 500) * level and
\* damage = 5 * (1 + s / 500) * level, for s the score when the frame began
\* or the score the frame computed before it spawned the wave.
C17_StatsByScore ==
  log.kind = "tick" =>
    \A i \in 1..Len(log.ev.spawned) :
      LET e == log.ev.spawned[i]
      IN  \E s \in {log.pre.score, score} :
            /\ DIFFICULTY_SCALING_FACTOR * e.health
                 = H(30) * (DIFFICULTY_SCALING_FACTOR + s) * e.level
            /\ e.maxHealth = e.health
            /\ DIFFICULTY_SCALING_FACTOR * e.damage
                 = G(5) * (DIFFICULTY_SCALING_FACTOR + s) * e.level

\* a frame on which the player fired a volley
VolleyFired ==
  /\ log.kind = "tick"
  /\ player.lastProjectileTime # log.pre.player.lastProjectileTime

\* the projectile level, the number of projectiles of a volley at that
\* level and the number of enemies at the time of the volley, which comes
\* before the wave and the enemy loop of its frame
VolleyLevel == log.pre.player.projectileLevel
VolleyN == 1 + ((VolleyLevel - 1) \div 3)
VolleyEnemies == log.pre.enemies

AimedAt(pr, e) ==
  LET dx == e.x - log.pre.player.x
      dy == e.y - log.pre.player.y
  IN  \/ dx = 0 /\ dy = 0
      \/ /\ Abs(pr.vx * dy - pr.vy * dx) <= Abs(dx) + Abs(dy)
         /\ pr.vx * dx + pr.vy * dy > 0

\* C19: a volley of N projectiles fired while at least N enemies exist is
\* aimed at N distinct enemies, projectile i at target i, and no enemy that
\* is not a target is strictly closer to the player than a target.
C19_NearestTargets ==
  (VolleyFired /\ Len(VolleyEnemies) >= VolleyN) =>
    /\ Len(log.ev.volley) = VolleyN
    /\ Len(log.ev.targets) = VolleyN
    /\ \A i, j \in 1..VolleyN :
         log.ev.targets[i].id = log.ev.targets[j].id => i = j
    /\ \A i \in 1..VolleyN :
         \E k \in WithId(VolleyEnemies, log.ev.targets[i].id) :
           /\ AimedAt(log.ev.volley[i], VolleyEnemies[k])
           /\ \A u \in 1..Len(VolleyEnemies) :
                (\A j \in 1..VolleyN :
                   log.ev.targets[j].id # VolleyEnemies[u].id)
                  => DistSq(VolleyEnemies[u], log.pre.player)
                       >= DistSq(VolleyEnemies[k], log.pre.player)

\* a volley of two or more projectiles fired while there were more enemies
\* than projectiles, the first enemy of the array farther away than a
\* target and not one itself
C19_Witness ==
  /\ VolleyFired
  /\ VolleyN >= 2
  /\ Len(VolleyEnemies) > VolleyN
  /\ \A j \in 1..Len(log.ev.targets) :
       /\ log.ev.targets[j].id # VolleyEnemies[1].id
       /\ \E k \in WithId(VolleyEnemies, log.ev.targets[j].id) :
            DistSq(VolleyEnemies[k], log.pre.player)
              < DistSq(VolleyEnemies[1], log.pre.player)

\* C20: a frame creates player projectiles only by a volley, and a volley
\* is fired only at projectileLevel L > 0 and more than
\* max(100, 300 - 15 * (L - 1)) ms after the volley before it.
C20_VolleyCooldown ==
  log.kind = "tick" =>
    /\ \A i \in 1..Len(projectiles) :
         projectiles[i].fromPlayer =>
           projectiles[i].id \in Ids(log.pre.projectiles) \cup Ids(log.ev.volley)
    /\ (log.ev.volley # <<>> \/ VolleyFired) =>
         /\ VolleyLevel > 0
         /\ now - log.pre.player.lastProjectileTime
              > Max(100, 300 - 15 * (VolleyLevel - 1))
    /\ VolleyLevel = 0 =>
         \A i \in 1..Len(projectiles) :
           projectiles[i].fromPlayer =>
             projectiles[i].id \in Ids(log.pre.projectiles)

\* a volley fired on the first frame after a frame on which the time since
\* the volley before it was the cooldown exactly
C20_Witness ==
  /\ VolleyFired
  /\ log.pre.player.lastProjectileTime > 0
  /\ now - log.dt - log.pre.player.lastProjectileTime
       = Max(100, 300 - 15 * (VolleyLevel - 1))

\* the projectiles that are in the list after the frame, each with the
\* record it had when the frame began or when the frame fired it
Flying ==
  {<<i, k>> \in (1..Len(projectiles)) \X (1..Len(FrameProjectiles)) :
     projectiles[i].id = FrameProjectiles[k].id}

\* the frame changed the velocity of the projectile
Steered(i, k) ==
  \/ projectiles[i].vx # FrameProjectiles[k].vx
  \/ projectiles[i].vy # FrameProjectiles[k].vy

SpeedSq(pr) == pr.vx * pr.vx + pr.vy * pr.vy

C23_FarCulled ==
  (log.kind = "tick" /\ log.ev.exit = "end") =>
    /\ \A i \in 1..Len(enemies) :
         Abs(enemies[i].y - player.y) <= 2 * L(ScreenHeight)
    /\ \A i \in 1..Len(projectiles) :
         Abs(projectiles[i].y - player.y) <= 2 * L(ScreenHeight)

\* a frame that ran to its end, removed an enemy for its distance and
\* removed an enemy's projectile that had hit nothing
C23_Witness ==
  /\ log.kind = "tick" /\ log.ev.exit = "end"
  /\ log.ev.culled # <<>>
  /\ \E k \in 1..Len(FrameProjectiles) :
       /\ ~FrameProjectiles[k].fromPlayer
       /\ FrameProjectiles[k].id \notin Ids(projectiles)
       /\ \A a \in 1..Len(Spent) : Spent[a] # FrameProjectiles[k].id

\* bloodGauge after the drain of the frame, by the claim's formula:
\* (1 + 0.5 * attackLevel) * deltaTime / 1000 units, with the attackLevel
\* the frame began with
Drained ==
  log.pre.player.bloodGauge
    - (((G(1) + (G(1) \div 2) * log.pre.player.attackLevel) * log.dt) \div 1000)

\* C24: a frame first subtracts (1 + 0.5 * attackLevel) * deltaTime / 1000
\* from bloodGauge: the frame stops there exactly when that empties the
\* gauge, and then nothing else has happened in it; on a frame without
\* damage and without kill the gauge ends at that value, whatever the
\* levels of the other three tracks.
C24_DrainFirst ==
  log.kind = "tick" =>
    /\ (Drained <= 0) <=> (log.ev.exit = "drain")
    /\ log.ev.exit = "drain" =>
         /\ player = [log.pre.player EXCEPT !.bloodGauge = Drained]
         /\ enemies = log.pre.enemies
         /\ projectiles = log.pre.projectiles
         /\ log.ev.spawned = <<>> /\ log.ev.volley = <<>>
    /\ (log.ev.hurts = <<>> /\ log.ev.kills = <<>>) =>
         player.bloodGauge = Drained

\* a frame without damage and kill, begun at attackLevel 1 or more and with
\* another track at level 1 or more
C24_Witness ==
  /\ log.kind = "tick"
  /\ log.ev.exit = "end"
  /\ log.ev.hurts = <<>> /\ log.ev.kills = <<>>
  /\ log.pre.player.attackLevel >= 1
  /\ log.pre.player.rangeLevel + log.pre.player.speedLevel
       + log.pre.player.projectileLevel >= 1

\* 5 + 0.5 * speedLevel px per frame, in half pixels
ClaimedMoveSpeed(level) == (L(10) + L(level)) \div 2

\* C25: in every state attackDamage = 10 + 5 * attackLevel and
\* attackRadius = 150 + 20 * rangeLevel, and a frame that gets past its
\* drain with an arrow key held sets the player's velocity along that axis
\* to 5 + 0.5 * speedLevel.
C25_LevelEffects ==
  /\ player.attackDamage = H(10 + 5 * player.attackLevel)
  /\ player.attackRadius = L(150 + 20 * player.rangeLevel)
  /\ (log.kind = "tick" /\ log.ev.exit # "drain") =>
       /\ "ArrowLeft" \in keys =>
            player.vx = -ClaimedMoveSpeed(log.pre.player.speedLevel)
       /\ ("ArrowRight" \in keys /\ "ArrowLeft" \notin keys) =>
            player.vx = ClaimedMoveSpeed(log.pre.player.speedLevel)
       /\ "ArrowUp" \in keys =>
            player.vy = -ClaimedMoveSpeed(log.pre.player.speedLevel)
       /\ ("ArrowDown" \in keys /\ "ArrowUp" \notin keys) =>
            player.vy = ClaimedMoveSpeed(log.pre.player.speedLevel)

\* a frame of the second run that got past its drain with a key held, after
\* a speed upgrade in that run; two upgrades empty the gauge of a run, so
\* the first run ended with levels that the restart took back
C25_Witness ==
  /\ runs = 2
  /\ log.kind = "tick" /\ log.ev.exit # "drain"
  /\ keys # {}
  /\ log.pre.player.speedLevel >= 1
  /\ player.vx # 0 \/ player.vy # 0

(***************************************************************************)
(* Independence of the four upgrade tracks (Game.tsx 804-853).             *)
(***************************************************************************)
Tracks == {"attack", "range", "speed", "projectile"}

Upgraded ==
  /\ log.kind = "upgrade"
  /\ LevelOf(player, log.track) # LevelOf(log.pre.player, log.track)

\* C26: a successful upgrade of one track leaves the levels of the other
\* three tracks, and so the cost of their next upgrade, unchanged; and no
\* level is capped: whatever the level, an upgrade whose cost the gauge
\* covers raises it by one.
C26_TracksIndependent ==
  log.kind = "upgrade" =>
    /\ \A other \in Tracks \ {log.track} :
         /\ LevelOf(player, other) = LevelOf(log.pre.player, other)
         /\ UpgradeCost(LevelOf(player, other))
              = UpgradeCost(LevelOf(log.pre.player, other))
    /\ log.pre.player.bloodGauge >= UpgradeCost(LevelOf(log.pre.player, log.track))
         => LevelOf(player, log.track) = LevelOf(log.pre.player, log.track) + 1

\* a second upgrade of the run, on a track other than the first one
C26_Witness ==
  /\ Upgraded
  /\ \E other \in Tracks \ {log.track} : LevelOf(log.pre.player, other) >= 1

(***************************************************************************)
(* The player's position (Game.tsx 203-226, 394-401).                      *)
(***************************************************************************)
OnScreen(p) ==
  /\ p.radius <= p.x
  /\ p.x <= L(ScreenWidth) - p.radius
  /\ p.y <= L(ScreenHeight) - p.radius

\* C27: after every tick and every touch-drag of a run the player is within
\* playerRadius <= x <= screenWidth - playerRadius and
\* y <= screenHeight - playerRadius; upwards nothing bounds y: a drag or a
\* frame that moves up lowers y by the whole move, wherever the player is.
C27_PlayerBounds ==
  /\ log.kind \in {"tick", "touchmove"} => OnScreen(player)
  /\ (log.kind = "touchmove" /\ log.d[2] <= 0) =>
       player.y = log.pre.player.y + L(log.d[2])
  /\ (log.kind = "tick" /\ log.ev.exit # "drain" /\ player.vy <= 0) =>
       player.y = log.pre.player.y + player.vy

\* a drag stopped by the left wall while the player is above the top of
\* the first screen
C27_Witness ==
  /\ log.kind = "touchmove"
  /\ log.pre.player.x + L(log.d[1]) < player.radius
  /\ player.x = player.radius
  /\ player.y < 0

(***************************************************************************)
(* Directions of vectors of length 0 (Game.tsx 364-374, 444-452, 489-499,  *)
(* 595-617).                                                               *)
(***************************************************************************)
\* the projectiles of the volley whose target was exactly on the player
VolleyOnPlayer ==
  {i \in 1..Len(log.ev.volley) :
     /\ log.ev.targets[i].id # 0
     /\ log.ev.targets[i].x = log.pre.player.x
     /\ log.ev.targets[i].y = log.pre.player.y}

Velocity(r) == <<r.vx, r.vy>>

RangedShots ==
  {i \in 1..Len(log.ev.shooters) : log.ev.shooters[i].type = "ranged"}

ShooterIds(type) ==
  {log.ev.shooters[i].id : i \in {k \in 1..Len(log.ev.shooters) :
                                    log.ev.shooters[k].type = type}}

\* C29: in one frame a ranged enemy fires at most one projectile; it has
\* half the damage of the enemy and not the fromPlayer flag; it is fired
\* more than 2000 ms after the spawn of the enemy and more than 2000 ms
\* after the time the enemy keeps as lastShootTime, which is the time of
\* its spawn until it has fired and the time of its last shot afterwards.
C29_RangedShots ==
  log.kind = "tick" =>
    /\ Len(log.ev.shots) = Len(log.ev.shooters)
    /\ \A i \in RangedShots :
         /\ \A j \in RangedShots :
              log.ev.shooters[j].id = log.ev.shooters[i].id => j = i
         /\ 2 * log.ev.shots[i].damage = log.ev.shooters[i].damage
         /\ ~log.ev.shots[i].fromPlayer
         /\ now - log.ev.shooters[i].last > 2000
         /\ now - log.ev.shooters[i].spawnTime > 2000
         /\ log.ev.shooters[i].last >= log.ev.shooters[i].spawnTime
    /\ \A i \in 1..Len(enemies) :
         enemies[i].type = "ranged" =>
           IF enemies[i].id \in ShooterIds("ranged") \/ enemies[i].spawnTime = now
           THEN enemies[i].lastShootTime = now
           ELSE \E k \in 1..Len(log.pre.enemies) :
                  /\ log.pre.enemies[k].id = enemies[i].id
                  /\ log.pre.enemies[k].lastShootTime = enemies[i].lastShootTime

\* a frame in which a ranged enemy fired for the second time, next to a
\* ranged enemy that the frame spawned and that did not fire
C29_Witness ==
  /\ log.kind = "tick"
  /\ \E i \in RangedShots :
       /\ log.ev.shooters[i].last > log.ev.shooters[i].spawnTime
       /\ log.ev.shots[i].damage > 0
  /\ \E i \in 1..Len(enemies) :
       /\ enemies[i].type = "ranged"
       /\ enemies[i].spawnTime = now
       /\ enemies[i].id \notin ShooterIds("ranged")

(***************************************************************************)
(* Cooldowns (Game.tsx 328-390, 426-431, 487-502, 542-557, 672-696).       *)
(***************************************************************************)
AttackFired ==
  log.ev.attack.fired \/ player.lastAttackTime # log.pre.player.lastAttackTime

\* the enemy with the id in the list, as a set of at most one record
EnemyWithId(es, id) == {es[k] : k \in WithId(es, id)}

\* C30: a frame, however long, has at most one wave, one auto-attack, one
\* volley and one shot of each ranged or chaser enemy; each of them happens
\* only if the time of the frame minus the time kept for it is more than
\* its cooldown, and sets the time kept for it to the time of the frame.
C30_NoCatchUp ==
  log.kind = "tick" =>
    /\ IF log.ev.spawned # <<>> \/ WaveSpawned
       THEN /\ now - log.pre.lastSpawnTime > 2000
            /\ lastSpawnTime = now
            /\ Len(log.ev.spawned)
                 = 1 + (Altitude \div L(300)) + (loopScore \div WAVE_SCALING_FACTOR)
       ELSE lastSpawnTime = log.pre.lastSpawnTime
    /\ IF AttackFired
       THEN /\ now - log.pre.player.lastAttackTime > log.pre.player.attackCooldown
            /\ player.lastAttackTime = now
            /\ \A i \in 1..Len(enemies) :
                 \A b \in EnemyWithId(log.ev.attack.before, enemies[i].id) :
                   enemies[i].health >= b.health - player.attackDamage
       ELSE player.lastAttackTime = log.pre.player.lastAttackTime
    /\ IF log.ev.volley # <<>> \/ VolleyFired
       THEN /\ now - log.pre.player.lastProjectileTime
                 > ProjectileCooldown(VolleyLevel)
            /\ player.lastProjectileTime = now
            /\ Len(log.ev.volley) <= VolleyN
       ELSE player.lastProjectileTime = log.pre.player.lastProjectileTime
    /\ Len(log.ev.shots) = Len(log.ev.shooters)
    /\ \A i \in 1..Len(log.ev.shooters) :
         LET s == log.ev.shooters[i]
         IN  /\ \A j \in 1..Len(log.ev.shooters) :
                  log.ev.shooters[j].id = s.id => j = i
             /\ s.type \in {"ranged", "chaser"}
             /\ now - s.last > IF s.type = "ranged" THEN 2000 ELSE 500
             /\ \A e \in EnemyWithId(enemies, s.id) :
                  now = IF s.type = "ranged" THEN e.lastShootTime
                        ELSE e.lastTrailTime

\* a frame of more than three wave cooldowns with a wave, an auto-attack, a
\* volley, a shot of a ranged enemy and a shot of a chaser
C30_Witness ==
  /\ log.kind = "tick"
  /\ log.dt > 3 * 2000
  /\ WaveSpawned
  /\ log.ev.attack.fired
  /\ log.ev.volley # <<>>
  /\ ShooterIds("ranged") # {}
  /\ ShooterIds("chaser") # {}

(***************************************************************************)
(* The darkness (Game.tsx 263-272, 406-413).                               *)
(***************************************************************************)
\* the player's y at the start of a run: the middle of the canvas
StartY == L(ScreenHeight) \div 2

\* C31: a run starts with darknessY = playerStartY + 200; every frame of the
\* run that reaches the darkness step lowers darknessY by 0.5 (one half
\* pixel), whatever its deltaTime, so that after n such frames it is
\* playerStartY + 200 - 0.5 * n; nothing raises darknessY during a run.
C31_DarknessRise ==
  /\ [](log.kind = "start" =>
          player.y = StartY /\ darknessY = StartY + L(200))
  /\ []((runs = 1 /\ gameState = "playing") =>
          darknessY = StartY + L(200) - ticks)
  /\ [][gameState = "playing" =>
          /\ darknessY' <= darknessY
          /\ darknessY' = IF log'.kind = "tick" /\ log'.ev.exit # "drain"
                          THEN darknessY - 1 ELSE darknessY]_vars

\* the third frame of the first run, frames of 500 ms and of 2001 ms behind
\* it, with darknessY 1.5 px above where it started
C31_Witness ==
  /\ runs = 1 /\ gameState = "playing"
  /\ ticks = 3
  /\ now = PageLoadTime + 2001 + 500 + 500
  /\ darknessY = StartY + L(200) - 3

(***************************************************************************)
(* Restart (Game.tsx 1177-1196) and the start of a run (Game.tsx 263-272). *)
(***************************************************************************)
\* the first frame of a run as it would be for the player of a first run
FreshFrame(dt, t) ==
  update([Game EXCEPT !.player = RunInitPlayer(InitialPlayer)], dt, t,
         loopScore)

\* C32: every run, the first and those after a restart, begins with
\* bloodGauge 100, the four levels 0, attackDamage 10, attackRadius 150,
\* baseSpeed 5, score 0, no enemies and no projectiles, the player at the
\* centre of the screen and darknessY = playerY + 200; and nothing of the
\* run before carries over: the first frame of the run moves the player and
\* changes the gauge, the lists and the phase as it does in a first run.
C32_FreshRun ==
  /\ [](log.kind = "start" =>
          /\ player.bloodGauge = G(100)
          /\ player.attackLevel = 0 /\ player.rangeLevel = 0
          /\ player.speedLevel = 0 /\ player.projectileLevel = 0
          /\ player.attackDamage = H(10)
          /\ player.attackRadius = L(150)
          /\ player.baseSpeed = L(5)
          /\ score = 0
          /\ enemies = <<>> /\ projectiles = <<>>
          /\ player.x = L(ScreenWidth) \div 2 /\ player.y = StartY
          /\ darknessY = player.y + L(200))
  /\ [][(log.kind = "start" /\ log'.kind = "tick") =>
          LET fresh == FreshFrame(log'.dt, now')
          IN  /\ player'.x = fresh.player.x
              /\ player'.y = fresh.player.y
              /\ player'.bloodGauge = fresh.player.bloodGauge
              /\ enemies' = fresh.enemies
              /\ projectiles' = fresh.projectiles
              /\ gameState' = fresh.gameState]_vars

\* C33: in a run in which playerY is never less than its value at the
\* start, the phase is gameover after the 400th frame at the latest,
\* whatever the deltaTime of the frames, the kills and the upgrades.
C33_DarknessBound ==
  [](gameState # "start" => player.y >= StartY)
    => [](ticks >= 400 => gameState = "gameover")

\* the darkness reaches a player who has stayed at the start on the 400th
\* frame, not before, after kills have added to the gauge
C33_Witness ==
  /\ ticks = 400
  /\ log.kind = "tick" /\ log.ev.exit = "darkness"
  /\ player.y = StartY
  /\ darknessY = StartY
  /\ player.bloodGauge > 0

\* C34: a frame whose drain brings bloodGauge to 0 or below sets the phase
\* to gameover and changes nothing else: the player's position, velocity
\* and cooldown timestamps, darknessY, cameraY, score, the enemy and
\* projectile lists and the spawn timestamp are as before the frame.
C34_DrainExit ==
  [][(log'.kind = "tick" /\ player.bloodGauge - DrainAmount(player, log'.dt) <= 0) =>
        /\ gameState' = "gameover"
        /\ player' = [player EXCEPT !.bloodGauge = @ - DrainAmount(player, log'.dt)]
        /\ UNCHANGED <<darknessY, cameraY, score, enemies, projectiles,
                       lastSpawnTime, ui>>]_vars

\* a frame ended by the drain while the player was moving among enemies
C34_Witness ==
  /\ log.kind = "tick" /\ log.ev.exit = "drain"
  /\ gameState = "gameover"
  /\ log.pre.player.bloodGauge > 0
  /\ player.bloodGauge <= 0
  /\ player.vx # 0 \/ player.vy # 0
  /\ enemies # <<>>

\* C35: a frame after whose move and darkness step playerY >= darknessY
\* sets the phase to gameover and stops there: no enemy is spawned, moved,
\* damaged or removed, the projectiles that existed have not moved, and the
\* score is not updated; the auto-attack has not run either.
C35_DarknessExit ==
  [][(log'.kind = "tick" /\ player'.y >= darknessY') =>
        /\ gameState' = "gameover"
        /\ enemies' = enemies
        /\ lastSpawnTime' = lastSpawnTime
        /\ Len(projectiles') >= Len(projectiles)
        /\ SubSeq(projectiles', 1, Len(projectiles)) = projectiles
        /\ score' = score
        /\ player'.lastAttackTime = player.lastAttackTime
        /\ player'.bloodGauge = player.bloodGauge - DrainAmount(player, log'.dt)]_vars

\* the darkness catches the player among enemies within attack range, with
\* projectiles in flight and the attack cooldown over
C35_Witness ==
  /\ log.kind = "tick" /\ log.ev.exit = "darkness"
  /\ gameState = "gameover"
  /\ player.y >= darknessY
  /\ enemies # <<>>
  /\ projectiles # <<>>

\* the losses of the frame that left bloodGauge at 0 or below
Fatal == {h \in 1..Len(log.ev.hurts) : log.ev.hurts[h].after <= 0}

\* C36: when contact, an explosion or an enemy projectile brings bloodGauge
\* to 0 or below during a frame, the phase is gameover at the end of that
\* frame, also when a later kill of the frame has raised bloodGauge above 0
\* again; the rest of the frame has run, the auto-attack whose cooldown
\* was over included.
C36_GameOverKept ==
  (log.kind = "tick" /\ Fatal # {}) =>
    /\ gameState = "gameover"
    /\ log.ev.exit = "end"
    /\ log.ev.attack.fired <=>
         now - log.pre.player.lastAttackTime > log.pre.player.attackCooldown
    /\ log.ev.attack.fired => player.lastAttackTime = now

\* a frame on which damage empties the gauge and a kill by the auto-attack
\* then raises it above 0: the phase is gameover with a positive bloodGauge
C36_Witness ==
  /\ log.kind = "tick" /\ Fatal # {}
  /\ gameState = "gameover"
  /\ player.bloodGauge > 0
  /\ \E k \in 1..Len(log.ev.kills) :
        /\ log.ev.kills[k].by = "attack"
        /\ log.ev.kills[k].before <= 0
        /\ log.ev.kills[k].after > 0

\* C37: after an upgrade, bought or not, bloodGauge is not negative; an
\* upgrade can leave it at exactly 0 with the phase still playing, and the
\* frame that follows sets the phase to gameover whatever its deltaTime,
\* 0 included.
C37_UpgradeToZero ==
  /\ [](log.kind = "upgrade" => player.bloodGauge >= 0)
  /\ [][(gameState = "playing" /\ player.bloodGauge = 0 /\ log'.kind = "tick")
          => gameState' = "gameover"]_vars

\* the frame after an upgrade that left the gauge at 0 has deltaTime 0
C37_Witness ==
  /\ log.kind = "tick" /\ log.dt = 0
  /\ log.pre.gameState = "playing"
  /\ log.pre.player.bloodGauge = 0
  /\ LevelOf(log.pre.player, "attack") + LevelOf(log.pre.player, "range")
       + LevelOf(log.pre.player, "speed") + LevelOf(log.pre.player, "projectile") > 0
  /\ gameState = "gameover"

\* the kills of the frame whose enemy was of the type
KillsOfType(type) ==
  {k \in 1..Len(log.ev.kills) :
     \E e \in EnemyWithId(FrameEnemies, log.ev.kills[k].id) : e.type = type}

=============================================================================
